---- MODULE Spec2Model ----
(***************************************************************************)
(* Monopolista game server (src/server/index.js): one room of the rooms     *)
(* registry, the sockets that talk to it, and every socket.io handler that  *)
(* touches it.  A handler is a function from the room before to the room    *)
(* after; the gameState snapshots it broadcasts on the way are collected in *)
(* the order the code emits them.                                           *)
(***************************************************************************)
EXTENDS Integers, Sequences, FiniteSets, TLC

VARIABLES
    room,      \* rooms[roomCode]: the Room aggregate, or NoRoom when the code is not in memory
    conns,     \* socket ids of the connections that are open
    nextConn,  \* id the next connection gets (socket.io ids are never reused)
    emitted,   \* the gameState snapshots of the latest broadcast, in the order sent
    nRolls,    \* dice rolls made so far (the model stops rolling at MaxRolls)
    nNet,      \* disconnects and rejoins so far (the model stops them at MaxNet)
    db,        \* the RoomState document of the room code, NoRoom when there is none,
               \* NoStore when MongoDB is not connected
    loading,   \* joinRoom handlers suspended at `await loadRoomFromDb`, by socket id
    saveTimers,\* room objects whose debounced save timer is pending
    roomObj,   \* which object rooms[roomCode] is (a load from the store makes a new one)
    dbOps,     \* updateOne and deleteOne calls sent to MongoDB and not yet applied
    rooms      \* the rooms registry as a whole where sockets are in several rooms (room is
               \* then unused): records of a room code and its Room, in the order of Object.keys

storeVars == <<db, loading, saveTimers, roomObj, dbOps>>
vars == <<room, conns, nextConn, emitted, nRolls, nNet, db, loading, saveTimers, roomObj, dbOps, rooms>>

----------------------------------------------------------------------------
(* Bounds of the model *)

MaxConn == 4    \* connections opened during a run
MaxRolls == 1   \* dice rolls during a run
MaxNet == 2     \* disconnects and accepted joinRoom intents during a run
MaxShuffle == 2 \* deck orders a shuffle may return (rotations 0 .. MaxShuffle - 1)
MaxGuests == 7  \* connections opened while a room is waiting (one more than the room takes)
MaxDraws == 17  \* draws from one deck that are followed (more than two rounds of it)
MaxRooms == 2   \* rooms the registry holds at a time where there are several
MaxVisitors == 3 \* connections opened during a run with several rooms

----------------------------------------------------------------------------
(* Program constants *)

JAIL_TILE_ID == 10
JAIL_FINE == 50
START_BONUS == 200
START_BALANCE == 1500
MAX_PLAYERS == 6
BOARD_LEN == 40

NoId == 0                      \* null / undefined socket id
NoPending == [type |-> "none"] \* room.pending = null
NoRoom == [status |-> "absent"]
NoStore == [status |-> "off"]  \* isMongoReady() is false
NoLoads == [c \in {} |-> NoRoom]

Nicks == {"A", "B", "C"}

PLAYER_COLORS == <<"blue", "yellow", "red", "green">>

Plain(t) == [type |-> t, price |-> 0, group |-> "", rentLevels |-> <<>>, rent |-> 0, amount |-> 0]
Prop(p, g, rl) == [type |-> "property", price |-> p, group |-> g, rentLevels |-> rl, rent |-> 0, amount |-> 0]
Station == [type |-> "station", price |-> 200, group |-> "", rentLevels |-> <<>>, rent |-> 25, amount |-> 0]
Utility == [type |-> "utility", price |-> 150, group |-> "", rentLevels |-> <<>>, rent |-> 0, amount |-> 0]
Tax(a) == [type |-> "tax", price |-> 0, group |-> "", rentLevels |-> <<>>, rent |-> 0, amount |-> a]

\* BOARD_TILES[i + 1] is the tile with id i
BOARD_TILES ==
    << Plain("start"),
       Prop(60, "brown", <<4, 8>>), Plain("chest"), Prop(60, "brown", <<4, 8>>), Tax(200), Station,
       Prop(100, "lightblue", <<6, 12, 18>>), Plain("random"), Prop(100, "lightblue", <<6, 12, 18>>),
       Prop(120, "lightblue", <<8, 16, 24>>),
       Plain("jail"),
       Prop(140, "pink", <<10, 20, 30>>), Utility, Prop(140, "pink", <<10, 20, 30>>),
       Prop(160, "pink", <<12, 24, 36>>), Station,
       Prop(180, "orange", <<14, 28, 42>>), Plain("chest"), Prop(180, "orange", <<14, 28, 42>>),
       Prop(200, "orange", <<16, 32, 48>>),
       Plain("parking"),
       Prop(220, "red", <<18, 36, 54>>), Plain("random"), Prop(220, "red", <<18, 36, 54>>),
       Prop(240, "red", <<20, 40, 60>>), Station,
       Prop(260, "yellow", <<22, 44, 66>>), Prop(260, "yellow", <<22, 44, 66>>), Utility,
       Prop(280, "yellow", <<24, 48, 72>>),
       Plain("go_to_jail"),
       Prop(300, "green", <<26, 52, 78>>), Prop(300, "green", <<26, 52, 78>>), Plain("chest"),
       Prop(320, "green", <<28, 56, 84>>), Station,
       Plain("random"), Prop(350, "darkblue", <<35, 70>>), Tax(100), Prop(400, "darkblue", <<50, 100>>) >>

TileIds == 0 .. (BOARD_LEN - 1)
Tile(i) == BOARD_TILES[i + 1]

Money(i, a) == [id |-> i, type |-> "money", amount |-> a, steps |-> 0, tileId |-> 0]
MoveSteps(i, s) == [id |-> i, type |-> "moveSteps", amount |-> 0, steps |-> s, tileId |-> 0]
MoveTo(i, t) == [id |-> i, type |-> "moveTo", amount |-> 0, steps |-> 0, tileId |-> t]
GoToJail(i) == [id |-> i, type |-> "goToJail", amount |-> 0, steps |-> 0, tileId |-> 0]

CHANCE_CARDS ==
    << Money("ch_1", 200), Money("ch_2", 25), Money("ch_3", -50), MoveSteps("ch_4", 3),
       MoveSteps("ch_5", -2), GoToJail("ch_6"), MoveTo("ch_7", 0), MoveTo("ch_8", 35) >>

COMMUNITY_CARDS ==
    << Money("co_1", 200), Money("co_2", -100), Money("co_3", 50), MoveSteps("co_4", -3),
       MoveSteps("co_5", 2), GoToJail("co_6"), MoveTo("co_7", 4) >>

isBuyable(tile) == tile.type \in {"property", "station", "utility"}

clamp(n, a, b) == IF n < a THEN a ELSE IF n > b THEN b ELSE n

\* 2 ^ e for the small exponents of the station rule
RECURSIVE pow2(_)
pow2(e) == IF e <= 0 THEN 1 ELSE 2 * pow2(e - 1)

\* The deck orders the model lets shuffleArray return: the catalog rotated by k
Rotate(arr, k) == [i \in 1 .. Len(arr) |-> arr[((i - 1 + k) % Len(arr)) + 1]]

createRoomBoard == [i \in TileIds |-> NoId]

createPlayer(socketId, nickname, colorKey) ==
    [ id |-> socketId, nickname |-> nickname, colorKey |-> colorKey, position |-> 0,
      balance |-> START_BALANCE, properties |-> <<>>, isBankrupt |-> FALSE, inJail |-> FALSE,
      jailTurnsLeft |-> 0, isDisconnected |-> FALSE ]

\* index (1-based) of the first element of seq satisfying the test, 0 when none: Array.find
RECURSIVE firstIndex(_, _, _)
firstIndex(seq, Test(_), i) ==
    IF i > Len(seq) THEN 0
    ELSE IF Test(seq[i]) THEN i
    ELSE firstIndex(seq, Test, i + 1)

pickNextColor(r) ==
    LET used == {r.players[i].colorKey : i \in 1 .. Len(r.players)}
        IsFree(c) == c \notin used
        k == firstIndex(PLAYER_COLORS, IsFree, 1)
    IN IF k = 0 THEN "blue" ELSE PLAYER_COLORS[k]

\* getPlayerById as an index into room.players (0 = null)
getPlayerById(r, playerId) ==
    LET HasId(p) == p.id = playerId
    IN firstIndex(r.players, HasId, 1)

getActivePlayers(r) == {i \in 1 .. Len(r.players) : ~r.players[i].isBankrupt}

allReady(r) ==
    /\ Len(r.players) >= 2
    /\ \A i \in 1 .. Len(r.players) :
          /\ r.players[i].id \in DOMAIN r.readyById
          /\ r.readyById[r.players[i].id]

\* The payload of the gameState broadcast
gameState(r) ==
    [ status |-> r.status, phase |-> r.phase, pending |-> r.pending, gameOver |-> r.gameOver,
      winner |-> IF r.winnerId # NoId /\ getPlayerById(r, r.winnerId) # 0
                 THEN [ id |-> r.winnerId,
                        nickname |-> r.players[getPlayerById(r, r.winnerId)].nickname ]
                 ELSE [ id |-> NoId, nickname |-> "" ],
      players |-> [i \in 1 .. Len(r.players) |->
                     [ id |-> r.players[i].id, nickname |-> r.players[i].nickname,
                       position |-> r.players[i].position, balance |-> r.players[i].balance,
                       isBankrupt |-> r.players[i].isBankrupt, inJail |-> r.players[i].inJail,
                       jailTurnsLeft |-> r.players[i].jailTurnsLeft,
                       isDisconnected |-> r.players[i].isDisconnected ]],
      currentPlayerId |-> IF r.currentPlayerIndex < Len(r.players)
                          THEN r.players[r.currentPlayerIndex + 1].id ELSE NoId,
      board |-> r.board ]

\* A handler in progress: the room, the snapshots broadcast so far, the answer
emitGameState(w) == [w EXCEPT !.out = Append(@, gameState(w.room))]
reject(w, e) == [w EXCEPT !.ok = FALSE, !.err = e]
accept(w) == [w EXCEPT !.ok = TRUE, !.err = ""]

----------------------------------------------------------------------------
(* Rent *)

countOwnerStations(r, ownerId) ==
    Cardinality({t \in TileIds : Tile(t).type = "station" /\ r.board[t] = ownerId})
countOwnerUtilities(r, ownerId) ==
    Cardinality({t \in TileIds : Tile(t).type = "utility" /\ r.board[t] = ownerId})
countOwnerGroupProps(r, ownerId, group) ==
    Cardinality({t \in TileIds : Tile(t).type = "property" /\ Tile(t).group = group
                                    /\ r.board[t] = ownerId})

\* computeRent with a station rent that grows by the base per station
computeRentLinearStations(r, t, diceSum) ==
    LET tile == Tile(t)
        ownerId == r.board[t]
    IN IF ownerId = NoId THEN 0
       ELSE IF tile.type = "property" THEN
            IF Len(tile.rentLevels) = 0 THEN 0
            ELSE tile.rentLevels[clamp(countOwnerGroupProps(r, ownerId, tile.group), 1,
                                       Len(tile.rentLevels))]
       ELSE IF tile.type = "station" THEN
            (IF tile.rent = 0 THEN 25 ELSE tile.rent)
               * clamp(countOwnerStations(r, ownerId), 1, 4)
       ELSE IF tile.type = "utility" THEN
            diceSum * (IF countOwnerUtilities(r, ownerId) >= 2 THEN 10 ELSE 4)
       ELSE 0

computeRent(r, t, diceSum) ==
    LET tile == Tile(t)
        ownerId == r.board[t]
    IN IF ownerId = NoId THEN 0
       ELSE IF tile.type = "property" THEN
            IF Len(tile.rentLevels) = 0 THEN 0
            ELSE tile.rentLevels[clamp(countOwnerGroupProps(r, ownerId, tile.group), 1,
                                       Len(tile.rentLevels))]
       ELSE IF tile.type = "station" THEN
            (IF tile.rent = 0 THEN 25 ELSE tile.rent)
               * pow2(clamp(countOwnerStations(r, ownerId), 1, 4) - 1)
       ELSE IF tile.type = "utility" THEN
            diceSum * (IF countOwnerUtilities(r, ownerId) >= 2 THEN 10 ELSE 4)
       ELSE 0

----------------------------------------------------------------------------
(* Turn helpers *)

RECURSIVE skipInactive(_, _, _)
skipInactive(players, idx, tries) ==
    IF tries < Len(players) /\ (players[idx + 1].isBankrupt \/ players[idx + 1].isDisconnected)
    THEN skipInactive(players, (idx + 1) % Len(players), tries + 1)
    ELSE idx

\* ensureCurrentIsActive that skips the disconnected but not the bankrupt
RECURSIVE skipDisconnected(_, _, _)
skipDisconnected(players, idx, tries) ==
    IF tries < Len(players) /\ players[idx + 1].isDisconnected
    THEN skipDisconnected(players, (idx + 1) % Len(players), tries + 1)
    ELSE idx

ensureCurrentSkipsDisconnectedOnly(r) ==
    IF Len(r.players) = 0 THEN r
    ELSE [r EXCEPT !.currentPlayerIndex = skipDisconnected(r.players, @, 0)]

ensureCurrentIsActive(r) ==
    IF Len(r.players) = 0 THEN r
    ELSE [r EXCEPT !.currentPlayerIndex = skipInactive(r.players, @, 0)]

\* advanceTurn that moves the pointer one place and skips nobody
advanceTurnOneStep(r) ==
    IF Len(r.players) = 0 THEN r
    ELSE [r EXCEPT !.currentPlayerIndex = (@ + 1) % Len(r.players)]

advanceTurn(r) ==
    IF Len(r.players) = 0 THEN r
    ELSE ensureCurrentIsActive(
            [r EXCEPT !.currentPlayerIndex = (@ + 1) % Len(r.players)])

----------------------------------------------------------------------------
(* Bankruptcy / winner *)

releasePropertiesToBank(r, playerId) ==
    [r EXCEPT !.board = [t \in TileIds |-> IF r.board[t] = playerId THEN NoId ELSE r.board[t]]]

\* checkWinner that declares the game over while two players are still in it
checkWinnerTooEarly(w) ==
    LET active == getActivePlayers(w.room)
    IN IF Cardinality(active) <= 2 /\ active # {}
       THEN LET win == CHOOSE i \in active : \A j \in active : i <= j
            IN emitGameState(
                 [w EXCEPT !.room.gameOver = TRUE,
                           !.room.winnerId = w.room.players[win].id,
                           !.room.phase = "awaiting_roll",
                           !.room.pending = NoPending])
       ELSE w

checkWinner(w) ==
    LET active == getActivePlayers(w.room)
    IN IF Cardinality(active) = 1
       THEN LET win == CHOOSE i \in active : TRUE
            IN emitGameState(
                 [w EXCEPT !.room.gameOver = TRUE,
                           !.room.winnerId = w.room.players[win].id,
                           !.room.phase = "awaiting_roll",
                           !.room.pending = NoPending])
       ELSE w

\* returns the handler state with ret = the function's boolean result
handleBankruptcy(w, playerId) ==
    LET r == w.room
        pl == getPlayerById(r, playerId)
    IN IF r.gameOver THEN [w EXCEPT !.ret = FALSE]
       ELSE IF pl = 0 \/ r.players[pl].isBankrupt THEN [w EXCEPT !.ret = FALSE]
       ELSE IF r.players[pl].balance >= 0 THEN [w EXCEPT !.ret = FALSE]
       ELSE LET r1 == [r EXCEPT !.players[pl].isBankrupt = TRUE,
                                !.players[pl].balance = 0,
                                !.players[pl].properties = <<>>,
                                !.players[pl].inJail = FALSE,
                                !.players[pl].jailTurnsLeft = 0]
                r2 == releasePropertiesToBank(r1, r1.players[pl].id)
                r3 == ensureCurrentIsActive(r2)
                r4 == [r3 EXCEPT !.phase = "awaiting_roll", !.pending = NoPending]
                w1 == emitGameState([w EXCEPT !.room = r4])
            IN [checkWinner(w1) EXCEPT !.ret = TRUE]

----------------------------------------------------------------------------
(* Movement paths *)

RECURSIVE buildForwardPath(_, _, _)
buildForwardPath(startPos, steps, len) ==
    IF steps <= 0 THEN <<>>
    ELSE <<(startPos + 1) % len>> \o buildForwardPath((startPos + 1) % len, steps - 1, len)

RECURSIVE buildBackwardPath(_, _, _)
buildBackwardPath(startPos, stepsAbs, len) ==
    IF stepsAbs <= 0 THEN <<>>
    ELSE <<(startPos - 1 + len) % len>>
            \o buildBackwardPath((startPos - 1 + len) % len, stepsAbs - 1, len)

----------------------------------------------------------------------------
(* Cards / jail *)

\* shuffleArray draws the permutation; kc and kk select it
initDecks(r, kc, kk) ==
    [r EXCEPT !.chanceDeck = Rotate(CHANCE_CARDS, kc), !.chancePos = 0,
              !.communityDeck = Rotate(COMMUNITY_CARDS, kk), !.communityPos = 0]

\* the room after the draw
\* a draw that leaves the cursor on the first card when it wraps around
drawCardRoomStuckAtWrap(r, deckType) ==
    LET isChance == deckType = "chance"
        deck == IF isChance THEN r.chanceDeck ELSE r.communityDeck
        pos0 == IF isChance THEN r.chancePos ELSE r.communityPos
        pos == IF pos0 >= Len(deck) THEN 0 ELSE pos0
    IN IF Len(deck) = 0 THEN r
       ELSE IF isChance THEN [r EXCEPT !.chancePos = IF pos0 >= Len(deck) THEN 0 ELSE pos + 1]
       ELSE [r EXCEPT !.communityPos = IF pos0 >= Len(deck) THEN 0 ELSE pos + 1]

drawCardRoom(r, deckType) ==
    LET isChance == deckType = "chance"
        deck == IF isChance THEN r.chanceDeck ELSE r.communityDeck
        pos0 == IF isChance THEN r.chancePos ELSE r.communityPos
        pos == IF pos0 >= Len(deck) THEN 0 ELSE pos0
    IN IF Len(deck) = 0 THEN r
       ELSE IF isChance THEN [r EXCEPT !.chancePos = pos + 1]
       ELSE [r EXCEPT !.communityPos = pos + 1]

\* the card drawCard returns
drawCard(r, deckType) ==
    LET isChance == deckType = "chance"
        deck == IF isChance THEN r.chanceDeck ELSE r.communityDeck
        pos0 == IF isChance THEN r.chancePos ELSE r.communityPos
        pos == IF pos0 >= Len(deck) THEN 0 ELSE pos0
    IN deck[pos + 1]

\* sendToJail that jails the player where the player stands
sendToJailInPlace(r, i) ==
    [r EXCEPT !.players[i].inJail = TRUE,
              !.players[i].jailTurnsLeft = 1]

sendToJail(r, i) ==
    [r EXCEPT !.players[i].position = JAIL_TILE_ID,
              !.players[i].inJail = TRUE,
              !.players[i].jailTurnsLeft = 1]

\* called when the player is in jail with turns left: opens the jail prompt
maybePromptJail(w, i) ==
    emitGameState(
       [w EXCEPT !.room.phase = "awaiting_jail_choice",
                 !.room.pending = [type |-> "jail", playerId |-> w.room.players[i].id,
                                   fine |-> JAIL_FINE]])

\* endTurn that leaves the answered prompt in room.pending
endTurnKeepsPending(w) ==
    emitGameState(
       [w EXCEPT !.room = advanceTurn([@ EXCEPT !.phase = "awaiting_roll"]),
                 !.adv = TRUE])

\* end of a landing: phase awaiting_roll, no pending, next player, broadcast
endTurn(w) ==
    emitGameState(
       [w EXCEPT !.room = advanceTurn([@ EXCEPT !.phase = "awaiting_roll",
                                                !.pending = NoPending]),
                 !.adv = TRUE])

\* resolveLanding from its unconditional broadcast on: buy offer or end of turn
landingTail(w, i) ==
    LET w1 == emitGameState(w)
        t == w1.room.players[i].position
        tile == Tile(t)
    IN IF isBuyable(tile) /\ w1.room.board[t] = NoId /\ tile.price > 0
       THEN emitGameState(
               [w1 EXCEPT !.room.phase = "awaiting_buy",
                          !.room.pending = [type |-> "buy", playerId |-> w1.room.players[i].id,
                                            tileId |-> t]])
       ELSE endTurn(w1)

\* a card branch that draws on every chance or community tile, also when a
\* card has moved the player there
landingCardAlways(w, i, diceSum, fromCard) ==
    LET r == w.room
        tile == Tile(r.players[i].position)
        deckType == IF tile.type = "random" THEN "chance" ELSE "community"
        deck == IF deckType = "chance" THEN r.chanceDeck ELSE r.communityDeck
    IN IF tile.type \in {"random", "chest"} /\ Len(deck) > 0
       THEN emitGameState(
               [w EXCEPT !.room = [drawCardRoom(r, deckType) EXCEPT
                     !.phase = "awaiting_card_ack",
                     !.pending = [type |-> "card", playerId |-> r.players[i].id,
                                  deckType |-> deckType, card |-> drawCard(r, deckType),
                                  diceSum |-> diceSum]]])
       ELSE landingTail(w, i)

\* resolveLanding, card branch
landingCard(w, i, diceSum, fromCard) ==
    LET r == w.room
        tile == Tile(r.players[i].position)
        deckType == IF tile.type = "random" THEN "chance" ELSE "community"
        deck == IF deckType = "chance" THEN r.chanceDeck ELSE r.communityDeck
    IN IF ~fromCard /\ tile.type \in {"random", "chest"} /\ Len(deck) > 0
       THEN emitGameState(
               [w EXCEPT !.room = [drawCardRoom(r, deckType) EXCEPT
                     !.phase = "awaiting_card_ack",
                     !.pending = [type |-> "card", playerId |-> r.players[i].id,
                                  deckType |-> deckType, card |-> drawCard(r, deckType),
                                  diceSum |-> diceSum]]])
       ELSE landingTail(w, i)

\* a rent branch that debits the lander without crediting the owner
landingRentUncredited(w, i, diceSum, fromCard) ==
    LET r == w.room
        t == r.players[i].position
        tile == Tile(t)
        owner == getPlayerById(r, r.board[t])
        rent == computeRent(r, t, diceSum)
    IN IF isBuyable(tile) /\ r.board[t] # NoId /\ r.board[t] # r.players[i].id
          /\ owner # 0 /\ rent > 0
       THEN LET r1 == [r EXCEPT !.players[i].balance = @ - rent]
                r2 == [r1 EXCEPT !.players[owner].balance = @]
                hb == handleBankruptcy([w EXCEPT !.room = r2], r2.players[i].id)
            IN IF hb.ret
               THEN emitGameState([hb EXCEPT !.room = advanceTurn(@), !.adv = TRUE])
               ELSE landingCard(hb, i, diceSum, fromCard)
       ELSE landingCard(w, i, diceSum, fromCard)

\* resolveLanding, rent branch
landingRent(w, i, diceSum, fromCard) ==
    LET r == w.room
        t == r.players[i].position
        tile == Tile(t)
        owner == getPlayerById(r, r.board[t])
        rent == computeRent(r, t, diceSum)
    IN IF isBuyable(tile) /\ r.board[t] # NoId /\ r.board[t] # r.players[i].id
          /\ owner # 0 /\ rent > 0
       THEN LET r1 == [r EXCEPT !.players[i].balance = @ - rent]
                r2 == [r1 EXCEPT !.players[owner].balance = @ + rent]
                hb == handleBankruptcy([w EXCEPT !.room = r2], r2.players[i].id)
            IN IF hb.ret
               THEN emitGameState([hb EXCEPT !.room = advanceTurn(@), !.adv = TRUE])
               ELSE landingCard(hb, i, diceSum, fromCard)
       ELSE landingCard(w, i, diceSum, fromCard)

\* i: index of the player object the caller passes
resolveLanding(w, i, diceSum, fromCard) ==
    LET r == w.room
        tile == Tile(r.players[i].position)
    IN IF tile.type = "go_to_jail"
       THEN checkWinner(endTurn([w EXCEPT !.room = sendToJail(r, i)]))
       ELSE IF tile.type = "tax"
       THEN LET r1 == [r EXCEPT !.players[i].balance = @ - tile.amount]
                hb == handleBankruptcy([w EXCEPT !.room = r1], r1.players[i].id)
            IN IF hb.ret
               THEN emitGameState([hb EXCEPT !.room = advanceTurn(@), !.adv = TRUE])
               ELSE landingRent(hb, i, diceSum, fromCard)
       ELSE landingRent(w, i, diceSum, fromCard)

applyCardEffectAfterAck(w, i, pendingCard) ==
    LET r == w.room
        card == pendingCard.card
        diceSum == pendingCard.diceSum
    IN IF card.type = "money"
       THEN LET r1 == [r EXCEPT !.players[i].balance = @ + card.amount]
                hb == handleBankruptcy([w EXCEPT !.room = r1], r1.players[i].id)
            IN IF hb.ret THEN checkWinner(endTurn(hb)) ELSE endTurn(hb)
       ELSE IF card.type = "goToJail"
       THEN checkWinner(endTurn([w EXCEPT !.room = sendToJail(r, i)]))
       ELSE IF card.type = "moveSteps"
       THEN LET startPos == r.players[i].position
                path == IF card.steps >= 0
                        THEN buildForwardPath(startPos, card.steps, BOARD_LEN)
                        ELSE buildBackwardPath(startPos, -card.steps, BOARD_LEN)
                r1 == IF Len(path) > 0
                      THEN [r EXCEPT !.players[i].position = path[Len(path)]]
                      ELSE r
            IN resolveLanding([w EXCEPT !.room = r1], i, diceSum, TRUE)
       ELSE IF card.type = "moveTo"
       THEN LET startPos == r.players[i].position
                target == card.tileId % BOARD_LEN
                r1 == IF target < startPos
                      THEN [r EXCEPT !.players[i].balance = @ + START_BONUS]
                      ELSE r
                r2 == [r1 EXCEPT !.players[i].position = target]
            IN resolveLanding([w EXCEPT !.room = r2], i, diceSum, TRUE)
       ELSE endTurn(w)

\* resetGame that leaves the turn pointer where it is
resetGameKeepsTurn(w, kc, kk) ==
    LET r == w.room
        r1 == [r EXCEPT !.board = createRoomBoard, !.phase = "awaiting_roll",
                        !.pending = NoPending,
                        !.gameOver = FALSE, !.winnerId = NoId,
                        !.players = [i \in 1 .. Len(r.players) |->
                            [r.players[i] EXCEPT !.position = 0, !.balance = START_BALANCE,
                                 !.properties = <<>>, !.isBankrupt = FALSE, !.inJail = FALSE,
                                 !.jailTurnsLeft = 0, !.isDisconnected = FALSE]]]
    IN emitGameState([w EXCEPT !.room = ensureCurrentIsActive(initDecks(r1, kc, kk))])

resetGame(w, kc, kk) ==
    LET r == w.room
        r1 == [r EXCEPT !.board = createRoomBoard, !.phase = "awaiting_roll",
                        !.pending = NoPending, !.currentPlayerIndex = 0,
                        !.gameOver = FALSE, !.winnerId = NoId,
                        !.players = [i \in 1 .. Len(r.players) |->
                            [r.players[i] EXCEPT !.position = 0, !.balance = START_BALANCE,
                                 !.properties = <<>>, !.isBankrupt = FALSE, !.inJail = FALSE,
                                 !.jailTurnsLeft = 0, !.isDisconnected = FALSE]]]
    IN emitGameState([w EXCEPT !.room = ensureCurrentIsActive(initDecks(r1, kc, kk))])

----------------------------------------------------------------------------
(* Rebinding the socket id on rejoin *)

\* rebindPlayerId without the rewrite of hostId
rebindPlayerIdKeepsHost(r, oldId, newId) ==
    IF oldId = NoId \/ newId = NoId THEN r
    ELSE [r EXCEPT
            !.players = [i \in 1 .. Len(r.players) |->
                            IF r.players[i].id = oldId
                            THEN [r.players[i] EXCEPT !.id = newId] ELSE r.players[i]],
            !.winnerId = IF @ = oldId THEN newId ELSE @,
            !.readyById = [k \in (DOMAIN r.readyById \ {oldId}) \cup {newId} |->
                              IF k = newId
                              THEN (oldId \in DOMAIN r.readyById /\ r.readyById[oldId])
                              ELSE r.readyById[k]],
            !.board = [t \in TileIds |-> IF r.board[t] = oldId THEN newId ELSE r.board[t]],
            !.pending = IF r.pending.type # "none" /\ r.pending.playerId = oldId
                        THEN [r.pending EXCEPT !.playerId = newId] ELSE r.pending]

\* rebindPlayerId without the rewrite of pending.playerId
rebindPlayerIdKeepsPending(r, oldId, newId) ==
    IF oldId = NoId \/ newId = NoId THEN r
    ELSE [r EXCEPT
            !.players = [i \in 1 .. Len(r.players) |->
                            IF r.players[i].id = oldId
                            THEN [r.players[i] EXCEPT !.id = newId] ELSE r.players[i]],
            !.hostId = IF @ = oldId THEN newId ELSE @,
            !.winnerId = IF @ = oldId THEN newId ELSE @,
            !.readyById = [k \in (DOMAIN r.readyById \ {oldId}) \cup {newId} |->
                              IF k = newId
                              THEN (oldId \in DOMAIN r.readyById /\ r.readyById[oldId])
                              ELSE r.readyById[k]],
            !.board = [t \in TileIds |-> IF r.board[t] = oldId THEN newId ELSE r.board[t]]]

rebindPlayerId(r, oldId, newId) ==
    IF oldId = NoId \/ newId = NoId THEN r
    ELSE [r EXCEPT
            !.players = [i \in 1 .. Len(r.players) |->
                            IF r.players[i].id = oldId
                            THEN [r.players[i] EXCEPT !.id = newId] ELSE r.players[i]],
            !.hostId = IF @ = oldId THEN newId ELSE @,
            !.winnerId = IF @ = oldId THEN newId ELSE @,
            !.readyById = [k \in (DOMAIN r.readyById \ {oldId}) \cup {newId} |->
                              IF k = newId
                              THEN (oldId \in DOMAIN r.readyById /\ r.readyById[oldId])
                              ELSE r.readyById[k]],
            !.board = [t \in TileIds |-> IF r.board[t] = oldId THEN newId ELSE r.board[t]],
            !.pending = IF r.pending.type # "none" /\ r.pending.playerId = oldId
                        THEN [r.pending EXCEPT !.playerId = newId] ELSE r.pending]

----------------------------------------------------------------------------
(* Socket.IO handlers.  Each takes the room and the sender's socket id and *)
(* returns the handler state: room after, snapshots broadcast, answer.     *)

Begin(r) == [room |-> r, out |-> <<>>, ok |-> TRUE, err |-> "", ret |-> FALSE, adv |-> FALSE]

\* player object at room.currentPlayerIndex
current(r) == r.players[r.currentPlayerIndex + 1]

createRoom(sock, nickname, kc, kk) ==
    LET r0 == [ status |-> "waiting", hostId |-> sock, readyById |-> (sock :> TRUE),
                players |-> <<>>, currentPlayerIndex |-> 0, board |-> createRoomBoard,
                phase |-> "awaiting_roll", pending |-> NoPending, gameOver |-> FALSE,
                winnerId |-> NoId, chanceDeck |-> <<>>, chancePos |-> 0,
                communityDeck |-> <<>>, communityPos |-> 0 ]
        r1 == [r0 EXCEPT !.players = <<createPlayer(sock, nickname, pickNextColor(r0))>>]
    IN accept(emitGameState(Begin(initDecks(r1, kc, kk))))

\* joinRoom that lets a new nickname into a game that has started
joinRoomAdmitsLate(r, sock, nickname) ==
    IF r.status = "absent" THEN reject(Begin(r), "ROOM_NOT_FOUND")
    ELSE IF r.status # "waiting"
    THEN LET HasNick(p) == p.nickname = nickname
             existingByNick == firstIndex(r.players, HasNick, 1)
         IN IF existingByNick = 0
            THEN accept(emitGameState(Begin(
                    [r EXCEPT !.players =
                                 Append(@, createPlayer(sock, nickname, pickNextColor(r)))])))
            ELSE LET r1 == rebindPlayerId(r, r.players[existingByNick].id, sock)
                     nowPlayer == getPlayerById(r1, sock)
                     r2 == IF nowPlayer # 0
                           THEN [r1 EXCEPT !.players[nowPlayer].isDisconnected = FALSE]
                           ELSE r1
                 IN accept(emitGameState(Begin(r2)))
    ELSE IF Len(r.players) >= MAX_PLAYERS THEN reject(Begin(r), "ROOM_FULL")
    ELSE IF getPlayerById(r, sock) # 0 THEN accept(emitGameState(Begin(r)))
    ELSE IF \E i \in 1 .. Len(r.players) : r.players[i].nickname = nickname
    THEN reject(Begin(r), "NICKNAME_TAKEN")
    ELSE LET r1 == [r EXCEPT !.players = Append(@, createPlayer(sock, nickname, pickNextColor(r))),
                             !.readyById = [k \in DOMAIN r.readyById \cup {sock} |->
                                               IF k = sock THEN FALSE ELSE r.readyById[k]]]
         IN accept(emitGameState(Begin(r1)))

\* joinRoom without the test of the nickname in a waiting room
joinRoomAnyNickname(r, sock, nickname) ==
    IF r.status = "absent" THEN reject(Begin(r), "ROOM_NOT_FOUND")
    ELSE IF r.status # "waiting"
    THEN LET HasNick(p) == p.nickname = nickname
             existingByNick == firstIndex(r.players, HasNick, 1)
         IN IF existingByNick = 0 THEN reject(Begin(r), "GAME_ALREADY_STARTED")
            ELSE LET r1 == rebindPlayerId(r, r.players[existingByNick].id, sock)
                     nowPlayer == getPlayerById(r1, sock)
                     r2 == IF nowPlayer # 0
                           THEN [r1 EXCEPT !.players[nowPlayer].isDisconnected = FALSE]
                           ELSE r1
                 IN accept(emitGameState(Begin(r2)))
    ELSE IF Len(r.players) >= MAX_PLAYERS THEN reject(Begin(r), "ROOM_FULL")
    ELSE IF getPlayerById(r, sock) # 0 THEN accept(emitGameState(Begin(r)))
    ELSE LET r1 == [r EXCEPT !.players = Append(@, createPlayer(sock, nickname, pickNextColor(r))),
                             !.readyById = [k \in DOMAIN r.readyById \cup {sock} |->
                                               IF k = sock THEN FALSE ELSE r.readyById[k]]]
         IN accept(emitGameState(Begin(r1)))

joinRoom(r, sock, nickname) ==
    IF r.status = "absent" THEN reject(Begin(r), "ROOM_NOT_FOUND")
    ELSE IF r.status # "waiting"
    THEN LET HasNick(p) == p.nickname = nickname
             existingByNick == firstIndex(r.players, HasNick, 1)
         IN IF existingByNick = 0 THEN reject(Begin(r), "GAME_ALREADY_STARTED")
            ELSE LET r1 == rebindPlayerId(r, r.players[existingByNick].id, sock)
                     nowPlayer == getPlayerById(r1, sock)
                     r2 == IF nowPlayer # 0
                           THEN [r1 EXCEPT !.players[nowPlayer].isDisconnected = FALSE]
                           ELSE r1
                 IN accept(emitGameState(Begin(r2)))
    ELSE IF Len(r.players) >= MAX_PLAYERS THEN reject(Begin(r), "ROOM_FULL")
    ELSE IF getPlayerById(r, sock) # 0 THEN accept(emitGameState(Begin(r)))
    ELSE IF \E i \in 1 .. Len(r.players) : r.players[i].nickname = nickname
    THEN reject(Begin(r), "NICKNAME_TAKEN")
    ELSE LET r1 == [r EXCEPT !.players = Append(@, createPlayer(sock, nickname, pickNextColor(r))),
                             !.readyById = [k \in DOMAIN r.readyById \cup {sock} |->
                                               IF k = sock THEN FALSE ELSE r.readyById[k]]]
         IN accept(emitGameState(Begin(r1)))

setReady(r, sock, ready) ==
    IF r.status = "absent" THEN reject(Begin(r), "")
    ELSE IF r.status # "waiting" THEN reject(Begin(r), "")
    ELSE IF getPlayerById(r, sock) = 0 THEN reject(Begin(r), "")
    ELSE accept(Begin([r EXCEPT !.readyById =
                          [k \in DOMAIN r.readyById \cup {sock} |->
                              IF k = sock THEN ready ELSE r.readyById[k]]]))

\* startGame without the test of the ready flags and of the number of players
startGameUnready(r, sock, kc, kk) ==
    IF r.status = "absent" THEN reject(Begin(r), "ROOM_NOT_FOUND")
    ELSE IF r.status # "waiting" THEN reject(Begin(r), "ALREADY_PLAYING")
    ELSE IF sock # r.hostId THEN reject(Begin(r), "NOT_HOST")
    ELSE LET r1 == [r EXCEPT !.status = "playing", !.board = createRoomBoard,
                             !.phase = "awaiting_roll", !.pending = NoPending,
                             !.currentPlayerIndex = 0, !.gameOver = FALSE, !.winnerId = NoId,
                             !.players = [i \in 1 .. Len(r.players) |->
                                 [r.players[i] EXCEPT !.position = 0, !.balance = START_BALANCE,
                                      !.properties = <<>>, !.isBankrupt = FALSE,
                                      !.inJail = FALSE, !.jailTurnsLeft = 0,
                                      !.isDisconnected = FALSE]]]
         IN accept(emitGameState(Begin(ensureCurrentIsActive(initDecks(r1, kc, kk)))))

startGame(r, sock, kc, kk) ==
    IF r.status = "absent" THEN reject(Begin(r), "ROOM_NOT_FOUND")
    ELSE IF r.status # "waiting" THEN reject(Begin(r), "ALREADY_PLAYING")
    ELSE IF sock # r.hostId THEN reject(Begin(r), "NOT_HOST")
    ELSE IF ~allReady(r) THEN reject(Begin(r), "NOT_READY")
    ELSE LET r1 == [r EXCEPT !.status = "playing", !.board = createRoomBoard,
                             !.phase = "awaiting_roll", !.pending = NoPending,
                             !.currentPlayerIndex = 0, !.gameOver = FALSE, !.winnerId = NoId,
                             !.players = [i \in 1 .. Len(r.players) |->
                                 [r.players[i] EXCEPT !.position = 0, !.balance = START_BALANCE,
                                      !.properties = <<>>, !.isBankrupt = FALSE,
                                      !.inJail = FALSE, !.jailTurnsLeft = 0,
                                      !.isDisconnected = FALSE]]]
         IN accept(emitGameState(Begin(ensureCurrentIsActive(initDecks(r1, kc, kk)))))

restartGame(r, sock, kc, kk) ==
    IF r.status = "absent" THEN reject(Begin(r), "ROOM_NOT_FOUND")
    ELSE IF r.status # "playing" THEN reject(Begin(r), "NOT_PLAYING")
    ELSE IF sock # r.hostId THEN reject(Begin(r), "NOT_HOST")
    ELSE accept(resetGame(Begin(r), kc, kk))


\* handleJailChoice whose skip branch does not count the skipped turn
handleJailChoiceSkipKeepsTerm(r, sock, pay) ==
    IF r.status # "playing" THEN reject(Begin(r), "NOT_PLAYING")
    ELSE IF r.gameOver THEN reject(Begin(r), "GAME_OVER")
    ELSE LET r1 == ensureCurrentIsActive(r)
             w1 == Begin(r1)
             i == r1.currentPlayerIndex + 1
             cur == r1.players[i]
         IN IF i > Len(r1.players) THEN reject(w1, "NO_CURRENT_PLAYER")
            ELSE IF cur.id # sock THEN reject(w1, "NOT_YOUR_TURN")
            ELSE IF cur.isBankrupt THEN reject(w1, "BANKRUPT")
            ELSE IF cur.isDisconnected THEN reject(w1, "DISCONNECTED")
            ELSE IF r1.phase # "awaiting_jail_choice" \/ r1.pending.type # "jail"
                    \/ r1.pending.playerId # sock
            THEN reject(w1, "NOT_IN_JAIL_CHOICE")
            ELSE IF pay
            THEN LET fine == IF r1.pending.fine = 0 THEN JAIL_FINE ELSE r1.pending.fine
                     r2 == [r1 EXCEPT !.players[i].balance = @ - fine,
                                      !.players[i].inJail = FALSE,
                                      !.players[i].jailTurnsLeft = 0,
                                      !.phase = "awaiting_roll", !.pending = NoPending]
                     hb == handleBankruptcy(emitGameState(Begin(r2)), r2.players[i].id)
                 IN IF hb.ret
                    THEN accept(checkWinner(emitGameState(
                            [hb EXCEPT !.room = advanceTurn(@), !.adv = TRUE])))
                    ELSE accept(hb)
            ELSE LET left == cur.jailTurnsLeft
                     r2 == [r1 EXCEPT !.players[i].jailTurnsLeft = left,
                                      !.players[i].inJail = IF left <= 0 THEN FALSE ELSE @]
                 IN accept(endTurn(Begin(r2)))

handleJailChoice(r, sock, pay) ==
    IF r.status # "playing" THEN reject(Begin(r), "NOT_PLAYING")
    ELSE IF r.gameOver THEN reject(Begin(r), "GAME_OVER")
    ELSE LET r1 == ensureCurrentIsActive(r)
             w1 == Begin(r1)
             i == r1.currentPlayerIndex + 1
             cur == r1.players[i]
         IN IF i > Len(r1.players) THEN reject(w1, "NO_CURRENT_PLAYER")
            ELSE IF cur.id # sock THEN reject(w1, "NOT_YOUR_TURN")
            ELSE IF cur.isBankrupt THEN reject(w1, "BANKRUPT")
            ELSE IF cur.isDisconnected THEN reject(w1, "DISCONNECTED")
            ELSE IF r1.phase # "awaiting_jail_choice" \/ r1.pending.type # "jail"
                    \/ r1.pending.playerId # sock
            THEN reject(w1, "NOT_IN_JAIL_CHOICE")
            ELSE IF pay
            THEN LET fine == IF r1.pending.fine = 0 THEN JAIL_FINE ELSE r1.pending.fine
                     r2 == [r1 EXCEPT !.players[i].balance = @ - fine,
                                      !.players[i].inJail = FALSE,
                                      !.players[i].jailTurnsLeft = 0,
                                      !.phase = "awaiting_roll", !.pending = NoPending]
                     hb == handleBankruptcy(emitGameState(Begin(r2)), r2.players[i].id)
                 IN IF hb.ret
                    THEN accept(checkWinner(emitGameState(
                            [hb EXCEPT !.room = advanceTurn(@), !.adv = TRUE])))
                    ELSE accept(hb)
            ELSE LET left == IF cur.jailTurnsLeft - 1 < 0 THEN 0 ELSE cur.jailTurnsLeft - 1
                     r2 == [r1 EXCEPT !.players[i].jailTurnsLeft = left,
                                      !.players[i].inJail = IF left <= 0 THEN FALSE ELSE @]
                 IN accept(endTurn(Begin(r2)))

handleCardAck(r, sock) ==
    IF r.status # "playing" THEN reject(Begin(r), "NOT_PLAYING")
    ELSE IF r.gameOver THEN reject(Begin(r), "GAME_OVER")
    ELSE LET r1 == ensureCurrentIsActive(r)
             w1 == Begin(r1)
             i == r1.currentPlayerIndex + 1
             cur == r1.players[i]
         IN IF i > Len(r1.players) THEN reject(w1, "NO_CURRENT_PLAYER")
            ELSE IF cur.id # sock THEN reject(w1, "NOT_YOUR_TURN")
            ELSE IF cur.isBankrupt THEN reject(w1, "BANKRUPT")
            ELSE IF cur.isDisconnected THEN reject(w1, "DISCONNECTED")
            ELSE IF r1.phase # "awaiting_card_ack" \/ r1.pending.type # "card"
                    \/ r1.pending.playerId # sock
            THEN reject(w1, "NOT_IN_CARD_ACK")
            ELSE accept(applyCardEffectAfterAck(
                           Begin([r1 EXCEPT !.pending = NoPending]), i, r1.pending))

\* rollDice that pays the bonus only for moving past START, not for landing on it
rollDiceBonusPastStart(r, sock, dice1, dice2) ==
    IF r.status # "playing" THEN reject(Begin(r), "NOT_PLAYING")
    ELSE IF r.gameOver THEN reject(Begin(r), "GAME_OVER")
    ELSE LET r1 == ensureCurrentIsActive(r)
             w1 == Begin(r1)
             i == r1.currentPlayerIndex + 1
             cur == r1.players[i]
         IN IF i > Len(r1.players) THEN reject(w1, "NO_CURRENT_PLAYER")
            ELSE IF cur.isBankrupt THEN reject(w1, "BANKRUPT")
            ELSE IF cur.isDisconnected THEN reject(w1, "DISCONNECTED")
            ELSE IF cur.id # sock THEN reject(w1, "NOT_YOUR_TURN")
            ELSE IF r1.phase # "awaiting_roll" THEN reject(w1, "NOT_IN_ROLL_PHASE")
            ELSE IF cur.inJail /\ cur.jailTurnsLeft > 0
            THEN accept(maybePromptJail(w1, i))
            ELSE LET steps == dice1 + dice2
                     oldPos == cur.position
                     wrapped == oldPos + steps >= BOARD_LEN
                     newPos == IF wrapped THEN (oldPos + steps) % BOARD_LEN ELSE oldPos + steps
                     r2 == [r1 EXCEPT !.players[i].balance =
                                          IF oldPos + steps > BOARD_LEN THEN @ + START_BONUS ELSE @,
                                      !.players[i].position = newPos]
                 IN accept(resolveLanding(Begin(r2), i, steps, FALSE))

\* rollDice without the test of gameOver
rollDiceAfterGameOver(r, sock, dice1, dice2) ==
    IF r.status # "playing" THEN reject(Begin(r), "NOT_PLAYING")
    ELSE LET r1 == ensureCurrentIsActive(r)
             w1 == Begin(r1)
             i == r1.currentPlayerIndex + 1
             cur == r1.players[i]
         IN IF i > Len(r1.players) THEN reject(w1, "NO_CURRENT_PLAYER")
            ELSE IF cur.isBankrupt THEN reject(w1, "BANKRUPT")
            ELSE IF cur.isDisconnected THEN reject(w1, "DISCONNECTED")
            ELSE IF cur.id # sock THEN reject(w1, "NOT_YOUR_TURN")
            ELSE IF r1.phase # "awaiting_roll" THEN reject(w1, "NOT_IN_ROLL_PHASE")
            ELSE IF cur.inJail /\ cur.jailTurnsLeft > 0
            THEN accept(maybePromptJail(w1, i))
            ELSE LET steps == dice1 + dice2
                     oldPos == cur.position
                     wrapped == oldPos + steps >= BOARD_LEN
                     newPos == IF wrapped THEN (oldPos + steps) % BOARD_LEN ELSE oldPos + steps
                     r2 == [r1 EXCEPT !.players[i].balance =
                                          IF wrapped THEN @ + START_BONUS ELSE @,
                                      !.players[i].position = newPos]
                 IN accept(resolveLanding(Begin(r2), i, steps, FALSE))

\* rollDice without the test of the phase
rollDiceInAnyPhase(r, sock, dice1, dice2) ==
    IF r.status # "playing" THEN reject(Begin(r), "NOT_PLAYING")
    ELSE IF r.gameOver THEN reject(Begin(r), "GAME_OVER")
    ELSE LET r1 == ensureCurrentIsActive(r)
             w1 == Begin(r1)
             i == r1.currentPlayerIndex + 1
             cur == r1.players[i]
         IN IF i > Len(r1.players) THEN reject(w1, "NO_CURRENT_PLAYER")
            ELSE IF cur.isBankrupt THEN reject(w1, "BANKRUPT")
            ELSE IF cur.isDisconnected THEN reject(w1, "DISCONNECTED")
            ELSE IF cur.id # sock THEN reject(w1, "NOT_YOUR_TURN")
            ELSE IF cur.inJail /\ cur.jailTurnsLeft > 0
            THEN accept(maybePromptJail(w1, i))
            ELSE LET steps == dice1 + dice2
                     oldPos == cur.position
                     wrapped == oldPos + steps >= BOARD_LEN
                     newPos == IF wrapped THEN (oldPos + steps) % BOARD_LEN ELSE oldPos + steps
                     r2 == [r1 EXCEPT !.players[i].balance =
                                          IF wrapped THEN @ + START_BONUS ELSE @,
                                      !.players[i].position = newPos]
                 IN accept(resolveLanding(Begin(r2), i, steps, FALSE))

rollDice(r, sock, dice1, dice2) ==
    IF r.status # "playing" THEN reject(Begin(r), "NOT_PLAYING")
    ELSE IF r.gameOver THEN reject(Begin(r), "GAME_OVER")
    ELSE LET r1 == ensureCurrentIsActive(r)
             w1 == Begin(r1)
             i == r1.currentPlayerIndex + 1
             cur == r1.players[i]
         IN IF i > Len(r1.players) THEN reject(w1, "NO_CURRENT_PLAYER")
            ELSE IF cur.isBankrupt THEN reject(w1, "BANKRUPT")
            ELSE IF cur.isDisconnected THEN reject(w1, "DISCONNECTED")
            ELSE IF cur.id # sock THEN reject(w1, "NOT_YOUR_TURN")
            ELSE IF r1.phase # "awaiting_roll" THEN reject(w1, "NOT_IN_ROLL_PHASE")
            ELSE IF cur.inJail /\ cur.jailTurnsLeft > 0
            THEN accept(maybePromptJail(w1, i))
            ELSE LET steps == dice1 + dice2
                     oldPos == cur.position
                     wrapped == oldPos + steps >= BOARD_LEN
                     newPos == IF wrapped THEN (oldPos + steps) % BOARD_LEN ELSE oldPos + steps
                     r2 == [r1 EXCEPT !.players[i].balance =
                                          IF wrapped THEN @ + START_BONUS ELSE @,
                                      !.players[i].position = newPos]
                 IN accept(resolveLanding(Begin(r2), i, steps, FALSE))

\* buyTile without the test of the balance
buyTileWithoutMoney(r, sock) ==
    IF r.status = "absent" THEN reject(Begin(r), "ROOM_NOT_FOUND")
    ELSE IF r.status # "playing" THEN reject(Begin(r), "NOT_PLAYING")
    ELSE IF r.gameOver THEN reject(Begin(r), "GAME_OVER")
    ELSE LET r1 == ensureCurrentIsActive(r)
             w1 == Begin(r1)
             i == r1.currentPlayerIndex + 1
             cur == r1.players[i]
             t == cur.position
             tile == Tile(t)
         IN IF i > Len(r1.players) THEN reject(w1, "NO_CURRENT_PLAYER")
            ELSE IF cur.isBankrupt THEN reject(w1, "BANKRUPT")
            ELSE IF cur.isDisconnected THEN reject(w1, "DISCONNECTED")
            ELSE IF cur.id # sock THEN reject(w1, "NOT_YOUR_TURN")
            ELSE IF r1.phase # "awaiting_buy" \/ r1.pending.type = "none"
                    \/ r1.pending.playerId # sock
            THEN reject(w1, "NOT_IN_BUY_PHASE")
            ELSE IF ~isBuyable(tile) THEN reject(w1, "NOT_BUYABLE")
            ELSE IF r1.board[t] # NoId THEN reject(w1, "ALREADY_OWNED")
            ELSE IF tile.price <= 0 THEN reject(w1, "NO_PRICE")
            ELSE LET r2 == [r1 EXCEPT !.board[t] = cur.id,
                                      !.players[i].balance = @ - tile.price,
                                      !.players[i].properties = Append(@, t)]
                 IN accept(endTurn(Begin(r2)))

\* buyTile that hands the tile over without taking the price
buyTileOnCredit(r, sock) ==
    IF r.status = "absent" THEN reject(Begin(r), "ROOM_NOT_FOUND")
    ELSE IF r.status # "playing" THEN reject(Begin(r), "NOT_PLAYING")
    ELSE IF r.gameOver THEN reject(Begin(r), "GAME_OVER")
    ELSE LET r1 == ensureCurrentIsActive(r)
             w1 == Begin(r1)
             i == r1.currentPlayerIndex + 1
             cur == r1.players[i]
             t == cur.position
             tile == Tile(t)
         IN IF i > Len(r1.players) THEN reject(w1, "NO_CURRENT_PLAYER")
            ELSE IF cur.isBankrupt THEN reject(w1, "BANKRUPT")
            ELSE IF cur.isDisconnected THEN reject(w1, "DISCONNECTED")
            ELSE IF cur.id # sock THEN reject(w1, "NOT_YOUR_TURN")
            ELSE IF r1.phase # "awaiting_buy" \/ r1.pending.type = "none"
                    \/ r1.pending.playerId # sock
            THEN reject(w1, "NOT_IN_BUY_PHASE")
            ELSE IF ~isBuyable(tile) THEN reject(w1, "NOT_BUYABLE")
            ELSE IF r1.board[t] # NoId THEN reject(w1, "ALREADY_OWNED")
            ELSE IF tile.price <= 0 THEN reject(w1, "NO_PRICE")
            ELSE IF cur.balance < tile.price THEN reject(w1, "NO_MONEY")
            ELSE LET r2 == [r1 EXCEPT !.board[t] = cur.id,
                                      !.players[i].balance = @,
                                      !.players[i].properties = Append(@, t)]
                 IN accept(endTurn(Begin(r2)))

buyTile(r, sock) ==
    IF r.status = "absent" THEN reject(Begin(r), "ROOM_NOT_FOUND")
    ELSE IF r.status # "playing" THEN reject(Begin(r), "NOT_PLAYING")
    ELSE IF r.gameOver THEN reject(Begin(r), "GAME_OVER")
    ELSE LET r1 == ensureCurrentIsActive(r)
             w1 == Begin(r1)
             i == r1.currentPlayerIndex + 1
             cur == r1.players[i]
             t == cur.position
             tile == Tile(t)
         IN IF i > Len(r1.players) THEN reject(w1, "NO_CURRENT_PLAYER")
            ELSE IF cur.isBankrupt THEN reject(w1, "BANKRUPT")
            ELSE IF cur.isDisconnected THEN reject(w1, "DISCONNECTED")
            ELSE IF cur.id # sock THEN reject(w1, "NOT_YOUR_TURN")
            ELSE IF r1.phase # "awaiting_buy" \/ r1.pending.type = "none"
                    \/ r1.pending.playerId # sock
            THEN reject(w1, "NOT_IN_BUY_PHASE")
            ELSE IF ~isBuyable(tile) THEN reject(w1, "NOT_BUYABLE")
            ELSE IF r1.board[t] # NoId THEN reject(w1, "ALREADY_OWNED")
            ELSE IF tile.price <= 0 THEN reject(w1, "NO_PRICE")
            ELSE IF cur.balance < tile.price THEN reject(w1, "NO_MONEY")
            ELSE LET r2 == [r1 EXCEPT !.board[t] = cur.id,
                                      !.players[i].balance = @ - tile.price,
                                      !.players[i].properties = Append(@, t)]
                 IN accept(endTurn(Begin(r2)))

\* skipBuy that checks the phase but not who is asking
skipBuyByAnyone(r, sock) ==
    IF r.status = "absent" THEN reject(Begin(r), "ROOM_NOT_FOUND")
    ELSE IF r.status # "playing" THEN reject(Begin(r), "NOT_PLAYING")
    ELSE IF r.gameOver THEN reject(Begin(r), "GAME_OVER")
    ELSE LET r1 == ensureCurrentIsActive(r)
             w1 == Begin(r1)
             i == r1.currentPlayerIndex + 1
             cur == r1.players[i]
         IN IF i > Len(r1.players) THEN reject(w1, "NO_CURRENT_PLAYER")
            ELSE IF cur.isBankrupt THEN reject(w1, "BANKRUPT")
            ELSE IF cur.isDisconnected THEN reject(w1, "DISCONNECTED")
            ELSE IF r1.phase # "awaiting_buy" \/ r1.pending.type = "none"
            THEN reject(w1, "NOT_IN_BUY_PHASE")
            ELSE accept(endTurn(w1))

skipBuy(r, sock) ==
    IF r.status = "absent" THEN reject(Begin(r), "ROOM_NOT_FOUND")
    ELSE IF r.status # "playing" THEN reject(Begin(r), "NOT_PLAYING")
    ELSE IF r.gameOver THEN reject(Begin(r), "GAME_OVER")
    ELSE LET r1 == ensureCurrentIsActive(r)
             w1 == Begin(r1)
             i == r1.currentPlayerIndex + 1
             cur == r1.players[i]
         IN IF i > Len(r1.players) THEN reject(w1, "NO_CURRENT_PLAYER")
            ELSE IF cur.isBankrupt THEN reject(w1, "BANKRUPT")
            ELSE IF cur.isDisconnected THEN reject(w1, "DISCONNECTED")
            ELSE IF cur.id # sock THEN reject(w1, "NOT_YOUR_TURN")
            ELSE IF r1.phase # "awaiting_buy" \/ r1.pending.type = "none"
                    \/ r1.pending.playerId # sock
            THEN reject(w1, "NOT_IN_BUY_PHASE")
            ELSE accept(endTurn(w1))

\* a disconnect that hands the leaver's tiles back to the bank in a playing room
disconnectReleasing(r, sock) ==
    LET idx == getPlayerById(r, sock)
    IN IF r.status # "playing" \/ idx = 0 THEN accept(Begin(r))
       ELSE LET r0 == releasePropertiesToBank(r, sock)
                r1 == [r0 EXCEPT !.players[idx].isDisconnected = TRUE,
                                 !.players[idx].properties = <<>>]
            IN IF current(r1).id = r1.players[idx].id
               THEN accept(emitGameState(
                       [Begin(advanceTurn([r1 EXCEPT !.phase = "awaiting_roll",
                                                     !.pending = NoPending]))
                          EXCEPT !.adv = TRUE]))
               ELSE accept(emitGameState(Begin(ensureCurrentIsActive(r1))))

\* the disconnect handler's loop body for this room
disconnect(r, sock) ==
    IF r.status = "absent" THEN accept(Begin(r))
    ELSE LET idx == getPlayerById(r, sock)
         IN IF idx = 0 THEN accept(Begin(r))
            ELSE IF r.status = "waiting"
            THEN LET left == [k \in 1 .. (Len(r.players) - 1) |->
                                 IF k < idx THEN r.players[k] ELSE r.players[k + 1]]
                     ready == [k \in DOMAIN r.readyById \ {sock} |-> r.readyById[k]]
                     r1 == [r EXCEPT !.players = left, !.readyById = ready]
                 IN IF Len(left) = 0 THEN accept(Begin(NoRoom))
                    ELSE IF r1.hostId = sock
                    THEN accept(Begin([r1 EXCEPT !.hostId = left[1].id,
                               !.readyById = [k \in DOMAIN ready \cup {left[1].id} |->
                                                 IF k = left[1].id THEN TRUE ELSE ready[k]]]))
                    ELSE accept(Begin(r1))
            ELSE LET r1 == [r EXCEPT !.players[idx].isDisconnected = TRUE]
                 IN IF r1.currentPlayerIndex < Len(r1.players)
                       /\ current(r1).id = r1.players[idx].id
                    THEN accept(emitGameState(
                            [Begin(advanceTurn([r1 EXCEPT !.phase = "awaiting_roll",
                                                          !.pending = NoPending]))
                               EXCEPT !.adv = TRUE]))
                    ELSE accept(emitGameState(Begin(ensureCurrentIsActive(r1))))

----------------------------------------------------------------------------
(* Actions: one per socket event *)

Dice == 1 .. 6
ShuffleDraws == 0 .. (MaxShuffle - 1)

\* the handler has run: the room is as it left it, and what it broadcast (if
\* anything) is the latest the clients of the room have received
Handled(w) ==
    /\ room' = w.room
    /\ emitted' = IF w.out = <<>> THEN emitted ELSE w.out
    /\ UNCHANGED <<storeVars, rooms>>

\* io.on('connection'): a new socket, no room is touched
Connect ==
    /\ nextConn <= MaxConn
    /\ conns' = conns \cup {nextConn}
    /\ nextConn' = nextConn + 1
    /\ UNCHANGED <<room, rooms, emitted, nRolls, nNet, storeVars>>

CreateRoom(c) ==
    /\ c \in conns
    /\ room = NoRoom
    /\ \E nickname \in Nicks, kc \in ShuffleDraws, kk \in ShuffleDraws :
          Handled(createRoom(c, nickname, kc, kk))
    /\ UNCHANGED <<conns, nextConn, nRolls, nNet>>

JoinRoom(c) ==
    /\ c \in conns
    /\ \E nickname \in Nicks :
          LET w == joinRoom(room, c, nickname)
          IN /\ w.ok => nNet < MaxNet
             /\ Handled(w)
             /\ nNet' = IF w.ok THEN nNet + 1 ELSE nNet
    /\ UNCHANGED <<conns, nextConn, nRolls>>

SetReady(c) ==
    /\ c \in conns
    /\ \E ready \in BOOLEAN : Handled(setReady(room, c, ready))
    /\ UNCHANGED <<conns, nextConn, nRolls, nNet>>

StartGame(c) ==
    /\ c \in conns
    /\ \E kc \in ShuffleDraws, kk \in ShuffleDraws :
          Handled(startGame(room, c, kc, kk))
    /\ UNCHANGED <<conns, nextConn, nRolls, nNet>>

\* a run is not followed beyond a restart: the new game gets no dice
RestartGame(c) ==
    /\ c \in conns
    /\ \E kc \in ShuffleDraws, kk \in ShuffleDraws :
          LET w == restartGame(room, c, kc, kk)
          IN /\ Handled(w)
             /\ nRolls' = IF w.ok THEN MaxRolls ELSE nRolls
    /\ UNCHANGED <<conns, nextConn, nNet>>

\* the handler threw the dice (it did not stop at a rejection or at the jail prompt)
Rolled(w) == w.ok /\ w.room.phase # "awaiting_jail_choice"

\* the checks and the jail prompt come before the dice are thrown
RollDice(c) ==
    /\ c \in conns
    /\ IF Rolled(rollDice(room, c, 1, 1))
       THEN /\ nRolls < MaxRolls
            /\ \E dice1 \in Dice, dice2 \in Dice : Handled(rollDice(room, c, dice1, dice2))
            /\ nRolls' = nRolls + 1
       ELSE /\ Handled(rollDice(room, c, 1, 1))
            /\ nRolls' = nRolls
    /\ UNCHANGED <<conns, nextConn, nNet>>

BuyTile(c) ==
    /\ c \in conns
    /\ Handled(buyTile(room, c))
    /\ UNCHANGED <<conns, nextConn, nRolls, nNet>>

SkipBuy(c) ==
    /\ c \in conns
    /\ Handled(skipBuy(room, c))
    /\ UNCHANGED <<conns, nextConn, nRolls, nNet>>

JailChoice(c) ==
    /\ c \in conns
    /\ \E pay \in BOOLEAN : Handled(handleJailChoice(room, c, pay))
    /\ UNCHANGED <<conns, nextConn, nRolls, nNet>>

CardAck(c) ==
    /\ c \in conns
    /\ Handled(handleCardAck(room, c))
    /\ UNCHANGED <<conns, nextConn, nRolls, nNet>>

Disconnect(c) ==
    /\ c \in conns
    /\ nNet < MaxNet
    /\ conns' = conns \ {c}
    /\ Handled(disconnect(room, c))
    /\ nNet' = nNet + 1
    /\ UNCHANGED <<nextConn, nRolls>>

Sockets == 1 .. MaxConn

\* MONGODB_URI is not set: nothing is saved or loaded
StoreOff ==
    /\ db = NoStore
    /\ loading = NoLoads
    /\ saveTimers = {}
    /\ roomObj = 0
    /\ dbOps = {}

Next ==
    \/ Connect
    \/ \E c \in Sockets : JoinRoom(c)
    \/ \E c \in Sockets : SetReady(c)
    \/ \E c \in Sockets : StartGame(c)
    \/ \E c \in Sockets : RestartGame(c)
    \/ \E c \in Sockets : RollDice(c)
    \/ \E c \in Sockets : BuyTile(c)
    \/ \E c \in Sockets : SkipBuy(c)
    \/ \E c \in Sockets : JailChoice(c)
    \/ \E c \in Sockets : CardAck(c)
    \/ \E c \in Sockets : Disconnect(c)

NextLobby == Next \/ \E c \in Sockets : CreateRoom(c)

\* A server that has just started: no room, no connection
InitLobby ==
    /\ room = NoRoom
    /\ conns = {}
    /\ nextConn = 1
    /\ emitted = <<>>
    /\ nRolls = 0
    /\ nNet = 0
    /\ rooms = <<>>
    /\ StoreOff

SpecLobby == InitLobby /\ [][NextLobby]_vars

----------------------------------------------------------------------------
(* The game in progress from which the gameplay specification starts.
   Sockets 1, 2 and 3 create and join the room as A, B and C, everybody is
   ready, the host starts the game with the chance deck shuffled to
   ch_4 .. ch_8, ch_1 .. ch_3 and the community deck to co_2 .. co_7, co_1,
   and ten rounds are played with these dice sums (no card is drawn):
     round  1:  A 11 buys;  B 12 buys;  C 6 skips
     round  2:  A 5 buys;  B 2 buys;  C 12 buys
     round  3:  A 7 buys;  B 12 buys;  C 7 skips
     round  4:  A 6 buys;  B 6 buys;  C 2 buys
     round  5:  A 8 buys;  B 3 buys;  C 4 buys
     round  6:  A 9 buys;  B 4 buys;  C 3 buys
     round  7:  A 7 buys;  B 6 buys;  C 9 buys
     round  8:  A 11 buys;  B 8;  C 5 buys
     round  9:  A 3;  B 6 skips;  C 12
     round 10:  A 2;  B 11;  C 10
   Every intent of that game is accepted by its handler.  After it A is to
   roll on tile 29 with 48, B and C sit in jail with 10 and 502, and 21
   tiles are owned. *)
MidGameOwner(t) ==
    IF t \in {6, 11, 13, 16, 23, 24, 29, 37} THEN 1
    ELSE IF t \in {5, 12, 14, 26, 32, 35, 39} THEN 2
    ELSE IF t \in {3, 8, 18, 27, 31, 34} THEN 3
    ELSE NoId

MidGame ==
    [ status |-> "playing", hostId |-> 1, readyById |-> [k \in {1, 2, 3} |-> TRUE],
      players |->
        << [createPlayer(1, "A", "blue") EXCEPT !.position = 29, !.balance = 48,
               !.properties = <<11, 16, 23, 29, 37, 6, 13, 24>>],
           [createPlayer(2, "B", "yellow") EXCEPT !.position = JAIL_TILE_ID, !.balance = 10,
               !.properties = <<12, 14, 26, 32, 35, 39, 5>>,
               !.inJail = TRUE, !.jailTurnsLeft = 1],
           [createPlayer(3, "C", "red") EXCEPT !.position = JAIL_TILE_ID, !.balance = 502,
               !.properties = <<18, 27, 31, 34, 3, 8>>,
               !.inJail = TRUE, !.jailTurnsLeft = 1] >>,
      currentPlayerIndex |-> 0, board |-> [t \in TileIds |-> MidGameOwner(t)],
      phase |-> "awaiting_roll", pending |-> NoPending, gameOver |-> FALSE, winnerId |-> NoId,
      chanceDeck |-> Rotate(CHANCE_CARDS, 3), chancePos |-> 0,
      communityDeck |-> Rotate(COMMUNITY_CARDS, 1), communityPos |-> 0 ]

\* The game in progress, with C's connection either open or just lost
Init ==
    /\ \/ room = MidGame /\ conns = {1, 2, 3}
       \/ room = disconnect(MidGame, 3).room /\ conns = {1, 2}
    /\ nextConn = 4
    /\ emitted = <<>>
    /\ nRolls = 0
    /\ nNet = 0
    /\ rooms = <<>>
    /\ StoreOff

Spec == Init /\ [][Next]_vars

----------------------------------------------------------------------------
(* Waiting room: socket 1 has created the room as "A"; further sockets     *)
(* connect, join under their own nickname or under the host's, set their   *)
(* ready flag, leave, and the game is started.                             *)

GuestNicks == <<"A", "B", "C", "D", "E", "F", "G">>

\* sockets arrive one at a time while the room is waiting: the next one
\* connects when the ones that are open have joined
ConnectGuest ==
    /\ nextConn <= MaxGuests
    /\ room.status = "waiting"
    /\ \A c \in conns : getPlayerById(room, c) # 0
    /\ conns' = conns \cup {nextConn}
    /\ nextConn' = nextConn + 1
    /\ UNCHANGED <<room, rooms, emitted, nRolls, nNet, storeVars>>

CreateGuestRoom(c) ==
    /\ c \in conns
    /\ room = NoRoom
    /\ Handled(createRoom(c, GuestNicks[c], 0, 0))
    /\ UNCHANGED <<conns, nextConn, nRolls, nNet>>

JoinGuest(c) ==
    /\ c \in conns
    /\ \E nickname \in {GuestNicks[c], GuestNicks[1]} : Handled(joinRoom(room, c, nickname))
    /\ UNCHANGED <<conns, nextConn, nRolls, nNet>>

\* the deck orders play no part before the first roll: one shuffle is followed
StartGuestGame(c) ==
    /\ c \in conns
    /\ Handled(startGame(room, c, 0, 0))
    /\ UNCHANGED <<conns, nextConn, nRolls, nNet>>

Guests == 1 .. MaxGuests

NextWaiting ==
    \/ ConnectGuest
    \/ \E c \in Guests : CreateGuestRoom(c)
    \/ \E c \in Guests : JoinGuest(c)
    \/ \E c \in Guests : SetReady(c)
    \/ \E c \in Guests : StartGuestGame(c)
    \/ \E c \in Guests : Disconnect(c)

InitWaiting ==
    /\ room = createRoom(1, GuestNicks[1], 0, 0).room
    /\ conns = {1}
    /\ nextConn = 2
    /\ emitted = <<>>
    /\ nRolls = 0
    /\ nNet = 0
    /\ rooms = <<>>
    /\ StoreOff

SpecWaiting == InitWaiting /\ [][NextWaiting]_vars

----------------------------------------------------------------------------
(* Rent: a game in progress for every way the stations and the utilities   *)
(* can be shared between the bank, A and B (the light-blue group with B),  *)
(* and for every way the light-blue group can be shared (stations and      *)
(* utilities with A); A stands on START and rolls.                         *)

RentTiles == <<5, 15, 25, 35, 12, 28, 6, 8, 9>>
RentOwners == {NoId, 1, 2}

RECURSIVE SortedSeq(_)
SortedSeq(S) ==
    IF S = {} THEN <<>>
    ELSE LET m == CHOOSE x \in S : \A y \in S : x <= y
         IN <<m>> \o SortedSeq(S \ {m})

RentConfigs ==
    {cfg \in [1 .. Len(RentTiles) -> RentOwners] :
        \/ \A k \in 7 .. 9 : cfg[k] = 2
        \/ \A k \in 1 .. 6 : cfg[k] = 1}

RentBoard(cfg) ==
    [t \in TileIds |->
       IF \E k \in 1 .. Len(RentTiles) : RentTiles[k] = t
       THEN cfg[CHOOSE k \in 1 .. Len(RentTiles) : RentTiles[k] = t]
       ELSE MidGameOwner(t)]

RentGame(cfg) ==
    LET b == RentBoard(cfg)
        held(j) == SortedSeq({t \in TileIds : b[t] = MidGame.players[j].id})
    IN [MidGame EXCEPT
          !.board = b,
          !.players = [j \in 1 .. Len(MidGame.players) |->
                         [MidGame.players[j] EXCEPT
                             !.properties = held(j),
                             !.position = IF j = 1 THEN 0 ELSE @,
                             !.balance = IF j = 1 THEN START_BALANCE ELSE @]]]

InitRent ==
    /\ \E cfg \in RentConfigs : room = RentGame(cfg)
    /\ conns = {1, 2, 3}
    /\ nextConn = 4
    /\ emitted = <<>>
    /\ nRolls = 0
    /\ nNet = 0
    /\ rooms = <<>>
    /\ StoreOff

NextRent == \E c \in conns : RollDice(c)

SpecRent == InitRent /\ [][NextRent]_vars

----------------------------------------------------------------------------
(* Decks: the room of a game that has just started, for every deck order   *)
(* the model lets the shuffle return, and the draws from the two decks.    *)

DeckTypes == {"chance", "community"}

InitDecks ==
    /\ \E kc \in 0 .. Len(CHANCE_CARDS) - 1, kk \in 0 .. Len(COMMUNITY_CARDS) - 1 :
          room = initDecks(MidGame, kc, kk)
    /\ conns = {1, 2, 3}
    /\ nextConn = 4
    /\ emitted = <<>>
    /\ nRolls = 0
    /\ nNet = 0
    /\ rooms = <<>>
    /\ StoreOff

\* drawCard(room, deckType)
Draw(deckType) ==
    /\ room' = drawCardRoom(room, deckType)
    /\ UNCHANGED <<conns, nextConn, emitted, nRolls, nNet, storeVars, rooms>>

NextDecks == Draw("chance") \/ Draw("community")

SpecDecks == InitDecks /\ [][NextDecks]_vars

----------------------------------------------------------------------------
(* Persistence: the server with MongoDB connected, after a restart.  The   *)
(* registry is empty and the store holds the room as it was last saved, a  *)
(* game in progress whose players are bound to the sockets of the process  *)
(* that went down.                                                          *)

roomToPersisted(r) ==
    [ hostId |-> r.hostId, readyById |-> r.readyById,
      players |-> [i \in 1 .. Len(r.players) |->
                     [ id |-> r.players[i].id, nickname |-> r.players[i].nickname,
                       colorKey |-> r.players[i].colorKey,
                       position |-> r.players[i].position,
                       balance |-> r.players[i].balance,
                       properties |-> r.players[i].properties,
                       isBankrupt |-> r.players[i].isBankrupt,
                       inJail |-> r.players[i].inJail,
                       jailTurnsLeft |-> r.players[i].jailTurnsLeft,
                       isDisconnected |-> r.players[i].isDisconnected ]],
      status |-> r.status, currentPlayerIndex |-> r.currentPlayerIndex,
      phase |-> r.phase, pending |-> r.pending, gameOver |-> r.gameOver,
      winnerId |-> r.winnerId, board |-> r.board,
      chanceDeck |-> r.chanceDeck, chancePos |-> r.chancePos,
      communityDeck |-> r.communityDeck, communityPos |-> r.communityPos ]

persistedToRoom(data) ==
    [ status |-> data.status, hostId |-> data.hostId, readyById |-> data.readyById,
      players |-> data.players, currentPlayerIndex |-> data.currentPlayerIndex,
      board |-> data.board, phase |-> data.phase, pending |-> data.pending,
      gameOver |-> data.gameOver, winnerId |-> data.winnerId,
      chanceDeck |-> data.chanceDeck, chancePos |-> data.chancePos,
      communityDeck |-> data.communityDeck, communityPos |-> data.communityPos ]

isMongoReady == db # NoStore

\* scheduleSave, called by appendLog and emitGameState: arms the timer of the
\* room object unless it is armed
scheduleSave(timers, obj, w) == IF w.out # <<>> THEN timers \cup {obj} ELSE timers

\* the handler has run with the store connected
HandledSaving(w, obj) ==
    /\ room' = w.room
    /\ emitted' = IF w.out = <<>> THEN emitted ELSE w.out
    /\ roomObj' = obj
    /\ saveTimers' = IF w.room = NoRoom THEN saveTimers ELSE scheduleSave(saveTimers, obj, w)
    /\ UNCHANGED <<dbOps, rooms>>

\* joinRoom for a code that is not in memory, up to `await loadRoomFromDb`
JoinRoomLoad(c) ==
    /\ c \in conns
    /\ c \notin DOMAIN loading
    /\ room = NoRoom
    /\ isMongoReady
    /\ nNet < MaxNet
    /\ \E nickname \in Nicks :
          loading' = loading @@ (c :> [nickname |-> nickname, read |-> FALSE,
                                       failed |-> FALSE, doc |-> NoRoom])
    /\ nNet' = nNet + 1
    /\ UNCHANGED <<room, rooms, conns, nextConn, emitted, nRolls, db, saveTimers, roomObj, dbOps>>

\* RoomState.findOne reads the document, or fails (loadRoomFromDb has no
\* try around it, so the rejection reaches the handler)
LoadReply(c) ==
    /\ c \in DOMAIN loading
    /\ ~loading[c].read
    /\ \E failed \in BOOLEAN :
          loading' = [loading EXCEPT ![c] = [@ EXCEPT !.read = TRUE, !.failed = failed,
                                                     !.doc = IF failed THEN NoRoom ELSE db]]
    /\ UNCHANGED <<room, rooms, conns, nextConn, emitted, nRolls, nNet, db, saveTimers, roomObj, dbOps>>

\* joinRoom from the await on, as a handler state: a rejected load lands in
\* the handler's catch; a loaded room is put in the registry and the handler
\* goes on as for a room in memory
joinRoomResumed(r, sock, load) ==
    IF load.failed THEN reject(Begin(r), "SERVER_ERROR")
    ELSE joinRoom(IF load.doc # NoRoom THEN persistedToRoom(load.doc) ELSE r,
                  sock, load.nickname)

JoinRoomLoaded(c) ==
    /\ c \in DOMAIN loading
    /\ loading[c].read
    /\ HandledSaving(joinRoomResumed(room, c, loading[c]),
                     IF loading[c].doc # NoRoom THEN roomObj + 1 ELSE roomObj)
    /\ loading' = [k \in DOMAIN loading \ {c} |-> loading[k]]
    /\ UNCHANGED <<conns, nextConn, nRolls, nNet, db>>

\* joinRoom for a code that is in memory
JoinRoomInMemory(c) ==
    /\ c \in conns
    /\ room # NoRoom
    /\ \E nickname \in Nicks :
          LET w == joinRoom(room, c, nickname)
          IN /\ w.ok => nNet < MaxNet
             /\ HandledSaving(w, roomObj)
             /\ nNet' = IF w.ok THEN nNet + 1 ELSE nNet
    /\ UNCHANGED <<conns, nextConn, nRolls, db, loading>>

\* deleteRoomFromDb: the deleteOne call goes out
deleteRoomFromDb(ops) == IF isMongoReady THEN ops \cup {[op |-> "deleteOne", data |-> NoRoom]} ELSE ops

\* disconnect with the store connected: a player who leaves arms the save
\* timer of the room; the last one of a waiting room has the room deleted
\* from the registry and the deleteOne sent
DisconnectSaving(c) ==
    /\ c \in conns
    /\ nNet < MaxNet
    /\ conns' = conns \ {c}
    /\ LET w == disconnect(room, c)
           left == room # NoRoom /\ getPlayerById(room, c) # 0
       IN /\ room' = w.room
          /\ emitted' = IF w.out = <<>> THEN emitted ELSE w.out
          /\ saveTimers' = IF left /\ w.room # NoRoom /\ isMongoReady
                           THEN saveTimers \cup {roomObj} ELSE saveTimers
          /\ dbOps' = IF left /\ w.room = NoRoom THEN deleteRoomFromDb(dbOps) ELSE dbOps
    /\ nNet' = nNet + 1
    /\ UNCHANGED <<nextConn, nRolls, db, loading, roomObj, rooms>>

\* a save timer fires: saveRoomNow takes the snapshot of the room the registry
\* holds now and sends the updateOne (upsert) that carries it
SaveRoomNow(obj) ==
    /\ obj \in saveTimers
    /\ saveTimers' = saveTimers \ {obj}
    /\ dbOps' = IF isMongoReady /\ room # NoRoom
                THEN dbOps \cup {[op |-> "updateOne", data |-> roomToPersisted(room)]}
                ELSE dbOps
    /\ UNCHANGED <<room, rooms, conns, nextConn, emitted, nRolls, nNet, db, loading, roomObj>>

\* MongoDB applies a call it was sent, or the call fails and the catch of
\* saveRoomNow / deleteRoomFromDb logs it.  The calls of the pool's
\* connections are applied in the order the server gets to them, which need
\* not be the order in which the handlers sent them.
DbApplies ==
    /\ \E o \in dbOps, failed \in BOOLEAN :
          /\ dbOps' = dbOps \ {o}
          /\ db' = IF failed THEN db ELSE IF o.op = "updateOne" THEN o.data ELSE NoRoom
    /\ UNCHANGED <<room, rooms, conns, nextConn, emitted, nRolls, nNet, loading, saveTimers, roomObj>>

ConnectSaving ==
    /\ nextConn <= MaxConn
    /\ conns' = conns \cup {nextConn}
    /\ nextConn' = nextConn + 1
    /\ UNCHANGED <<room, rooms, emitted, nRolls, nNet, storeVars>>

NextStore ==
    \/ ConnectSaving
    \/ \E c \in Sockets : JoinRoomLoad(c)
    \/ \E c \in Sockets : LoadReply(c)
    \/ \E c \in Sockets : JoinRoomLoaded(c)
    \/ \E c \in Sockets : JoinRoomInMemory(c)
    \/ \E c \in Sockets : DisconnectSaving(c)
    \/ \E obj \in 0 .. MaxNet : SaveRoomNow(obj)
    \/ DbApplies

\* socket ids of the process that went down
StaleId(i) == 10 + i

\* the game in progress as it was saved, bound to the stale socket ids
SavedGame ==
    roomToPersisted(
        rebindPlayerId(rebindPlayerId(rebindPlayerId(MidGame, 1, StaleId(1)),
                                      2, StaleId(2)), 3, StaleId(3)))

InitStore ==
    /\ room = NoRoom
    /\ conns = {}
    /\ nextConn = 1
    /\ emitted = <<>>
    /\ nRolls = 0
    /\ nNet = 0
    /\ rooms = <<>>
    /\ db = SavedGame
    /\ loading = NoLoads
    /\ saveTimers = {}
    /\ roomObj = 0
    /\ dbOps = {}

SpecStore == InitStore /\ [][NextStore]_vars

\* the server with MongoDB connected and nothing saved yet, just after a
\* createRoom: the creator waits in the room and the room's save timer is armed
InitLobbyStore ==
    /\ room = createRoom(1, "A", 0, 0).room
    /\ conns = {1}
    /\ nextConn = 2
    /\ emitted = <<>>
    /\ nRolls = 0
    /\ nNet = 0
    /\ rooms = <<>>
    /\ db = NoRoom
    /\ loading = NoLoads
    /\ saveTimers = {0}
    /\ roomObj = 0
    /\ dbOps = {}

SpecLobbyStore == InitLobbyStore /\ [][NextStore]_vars

----------------------------------------------------------------------------
(* Several rooms: the registry with more than one room, the store off.  A  *)
(* socket may create rooms and join rooms without leaving the ones it is   *)
(* in; its disconnect handler walks the whole registry.                    *)

RoomCodes == 1 .. MaxRooms

\* the disconnect handler's loop over Object.keys(rooms), from entry k on: a
\* room without the socket is passed over, a waiting room the socket leaves
\* empty is deleted and the handler returns, any other room is updated and
\* the loop goes on.  A deleted room is left in place as NoRoom.
RECURSIVE disconnectFrom(_, _, _)
disconnectFrom(rs, sock, k) ==
    IF k > Len(rs) THEN rs
    ELSE IF getPlayerById(rs[k].room, sock) = 0 THEN disconnectFrom(rs, sock, k + 1)
    ELSE LET w == disconnect(rs[k].room, sock)
             rs1 == [rs EXCEPT ![k].room = w.room]
         IN IF w.room = NoRoom THEN rs1 ELSE disconnectFrom(rs1, sock, k + 1)

\* the registry after the disconnect handler of socket sock
disconnectEveryRoom(rs, sock) ==
    SelectSeq(disconnectFrom(rs, sock, 1), LAMBDA e : e.room # NoRoom)

UsedCodes == {rooms[k].code : k \in 1 .. Len(rooms)}

\* io.on('connection') while the registry holds several rooms
ConnectVisitor ==
    /\ nextConn <= MaxVisitors
    /\ conns' = conns \cup {nextConn}
    /\ nextConn' = nextConn + 1
    /\ UNCHANGED <<room, rooms, emitted, nRolls, nNet, storeVars>>

CreateRoomIn(c) ==
    /\ c \in conns
    /\ Len(rooms) < MaxRooms
    /\ \E code \in RoomCodes \ UsedCodes :
          rooms' = Append(rooms, [code |-> code,
                                  room |-> createRoom(c, GuestNicks[c], 0, 0).room])
    /\ UNCHANGED <<room, conns, nextConn, emitted, nRolls, nNet, storeVars>>

JoinRoomIn(c, k) ==
    /\ c \in conns
    /\ k \in 1 .. Len(rooms)
    /\ rooms' = [rooms EXCEPT ![k].room = joinRoom(@, c, GuestNicks[c]).room]
    /\ UNCHANGED <<room, conns, nextConn, emitted, nRolls, nNet, storeVars>>

SetReadyIn(c, k) ==
    /\ c \in conns
    /\ k \in 1 .. Len(rooms)
    /\ rooms' = [rooms EXCEPT ![k].room = setReady(@, c, TRUE).room]
    /\ UNCHANGED <<room, conns, nextConn, emitted, nRolls, nNet, storeVars>>

StartGameIn(c, k) ==
    /\ c \in conns
    /\ k \in 1 .. Len(rooms)
    /\ rooms' = [rooms EXCEPT ![k].room = startGame(@, c, 0, 0).room]
    /\ UNCHANGED <<room, conns, nextConn, emitted, nRolls, nNet, storeVars>>

DisconnectSocket(c) ==
    /\ c \in conns
    /\ conns' = conns \ {c}
    /\ rooms' = disconnectEveryRoom(rooms, c)
    /\ UNCHANGED <<room, nextConn, emitted, nRolls, nNet, storeVars>>

NextRooms ==
    \/ ConnectVisitor
    \/ \E c \in Sockets : CreateRoomIn(c)
    \/ \E c \in Sockets, k \in RoomCodes : JoinRoomIn(c, k)
    \/ \E c \in Sockets, k \in RoomCodes : SetReadyIn(c, k)
    \/ \E c \in Sockets, k \in RoomCodes : StartGameIn(c, k)
    \/ \E c \in Sockets : DisconnectSocket(c)

\* the server has started: no room, no connection
InitRooms ==
    /\ room = NoRoom
    /\ rooms = <<>>
    /\ conns = {}
    /\ nextConn = 1
    /\ emitted = <<>>
    /\ nRolls = 0
    /\ nNet = 0
    /\ StoreOff

SpecRooms == InitRooms /\ [][NextRooms]_vars

----------------------------------------------------------------------------
(* The intents the open connections can send in the current state, and the *)
(* handler's answer to each                                                *)

Intent(kind, c, d1, d2, pay) ==
    [kind |-> kind, sock |-> c, dice1 |-> d1, dice2 |-> d2, pay |-> pay]

\* the dice matter only to a rollDice that gets to throw them
DiceOf(c) == IF Rolled(rollDice(room, c, 1, 1)) THEN Dice ELSE {1}

GameplayIntents ==
    UNION {{Intent("rollDice", c, d1, d2, FALSE) : d1 \in DiceOf(c), d2 \in DiceOf(c)} :
              c \in conns}
      \cup {Intent(k, c, 1, 1, FALSE) : k \in {"buyTile", "skipBuy", "cardAck"}, c \in conns}
      \cup {Intent("jailChoice", c, 1, 1, pay) : c \in conns, pay \in BOOLEAN}

TurnIntents == GameplayIntents \cup {Intent("disconnect", c, 1, 1, FALSE) : c \in conns}

Answer(r, in) ==
    CASE in.kind = "rollDice" -> rollDice(r, in.sock, in.dice1, in.dice2)
      [] in.kind = "buyTile" -> buyTile(r, in.sock)
      [] in.kind = "skipBuy" -> skipBuy(r, in.sock)
      [] in.kind = "jailChoice" -> handleJailChoice(r, in.sock, in.pay)
      [] in.kind = "cardAck" -> handleCardAck(r, in.sock)
      [] in.kind = "disconnect" -> disconnect(r, in.sock)

\* positions, balances, ownership, phase, pending, jail flags, deck cursors
GameFields(r) ==
    [ players |-> [i \in 1 .. Len(r.players) |->
                     [ position |-> r.players[i].position, balance |-> r.players[i].balance,
                       properties |-> r.players[i].properties,
                       isBankrupt |-> r.players[i].isBankrupt,
                       inJail |-> r.players[i].inJail,
                       jailTurnsLeft |-> r.players[i].jailTurnsLeft ]],
      board |-> r.board, phase |-> r.phase, pending |-> r.pending,
      chancePos |-> r.chancePos, communityPos |-> r.communityPos,
      gameOver |-> r.gameOver, winnerId |-> r.winnerId ]

Bankrupts(r) == {i \in 1 .. Len(r.players) : r.players[i].isBankrupt}
Eligible(r) ==
    {i \in 1 .. Len(r.players) : ~r.players[i].isBankrupt /\ ~r.players[i].isDisconnected}

----------------------------------------------------------------------------
(* C1 *)

\* C1: after every handled intent the room holds one pending-action record at
\* most (none, a buy offer, a jail prompt or a drawn card), and there is none
\* whenever the phase is awaiting_roll.
C1_PendingNullWhenAwaitingRoll ==
    room.status = "playing" =>
       /\ room.pending.type \in {"none", "buy", "jail", "card"}
       /\ room.phase = "awaiting_roll" => room.pending = NoPending

\* a buy offer was made (A passed START onto tile 1) and answered with a buy
C1_Witness ==
    /\ room.board[1] # NoId
    /\ room.phase = "awaiting_roll"
    /\ room.pending = NoPending

----------------------------------------------------------------------------
(* C2 *)

\* C2: every bankrupt player has balance 0, an empty owned-tile list and is
\* the owner of no board tile.
C2_BankruptHoldsNothing ==
    \A i \in Bankrupts(room) :
       /\ room.players[i].balance = 0
       /\ room.players[i].properties = <<>>
       /\ \A t \in TileIds : room.board[t] # room.players[i].id

----------------------------------------------------------------------------
(* C3 *)

\* C3: when the game is over exactly one player is not bankrupt, and winnerId
\* is the id that player has now.
C3_GameOverHasOneWinner ==
    (room.status = "playing" /\ room.gameOver) =>
       /\ Cardinality(getActivePlayers(room)) = 1
       /\ \A i \in getActivePlayers(room) : room.winnerId = room.players[i].id

\* the game ended and the winner has since rejoined on a new connection
C3_Witness ==
    /\ room.gameOver
    /\ room.winnerId = 4
    /\ Cardinality(Bankrupts(room)) = 2

----------------------------------------------------------------------------
(* C4 *)

\* the sender is the player whose turn the handler finds it to be, that player
\* can play, and every prompt answered names the sender
Authorized(r, in) ==
    LET r1 == ensureCurrentIsActive(r)
    IN /\ r1.currentPlayerIndex < Len(r1.players)
       /\ current(r1).id = in.sock
       /\ ~current(r1).isBankrupt
       /\ ~current(r1).isDisconnected
       /\ in.kind # "rollDice" => (r.pending.type # "none" /\ r.pending.playerId = in.sock)

\* C4: a rollDice, buyTile, skipBuy, jailChoice or cardAck intent changes
\* positions, balances, ownership, phase, pending, jail flags or deck cursors
\* only if it is accepted and its sender is the current player, not bankrupt,
\* not disconnected, and named by the pending action it answers.
C4_OnlyCurrentPlayerAdvances ==
    \A in \in GameplayIntents :
       LET w == Answer(room, in)
       IN GameFields(w.room) # GameFields(room) => w.ok /\ Authorized(room, in)

\* a buy offer is open: the buyer's buyTile changes the game, the same intent
\* from another player's connection is refused and changes nothing
C4_Witness ==
    /\ room.phase = "awaiting_buy"
    /\ \E in \in GameplayIntents :
          /\ in.kind = "buyTile"
          /\ Authorized(room, in)
          /\ GameFields(Answer(room, in).room) # GameFields(room)
    /\ \E in \in GameplayIntents :
          /\ in.kind = "buyTile"
          /\ getPlayerById(room, in.sock) # 0
          /\ ~Authorized(room, in)
          /\ ~Answer(room, in).ok
          /\ GameFields(Answer(room, in).room) = GameFields(room)

----------------------------------------------------------------------------
(* C5 *)

\* C5: whenever rollDice, buyTile, skipBuy, jailChoice or cardAck answers
\* ok = false, the room after the handler is the room before it.
C5_RejectionChangesNothing ==
    \A in \in GameplayIntents :
       LET w == Answer(room, in) IN ~w.ok => w.room = room

----------------------------------------------------------------------------
(* C6 *)

\* C6 as claimed: in a playing room with at least 2 players and at least one
\* non-bankrupt player, after a handler has called advanceTurn the player at
\* currentPlayerIndex is not bankrupt.
C6_AdvanceNeverSelectsBankrupt ==
    \A in \in TurnIntents :
       LET w == Answer(room, in)
       IN (w.adv /\ w.room.status = "playing" /\ Len(w.room.players) >= 2
             /\ getActivePlayers(w.room) # {})
          => ~current(w.room).isBankrupt

\* C6 as amended: in a playing room with at least 2 players and at least one
\* player who is neither bankrupt nor flagged disconnected, after a handler
\* has called advanceTurn the player at currentPlayerIndex is not bankrupt.
C6_AdvanceSelectsNoBankruptIfSomeoneCanPlay ==
    \A in \in TurnIntents :
       LET w == Answer(room, in)
       IN (w.adv /\ w.room.status = "playing" /\ Len(w.room.players) >= 2
             /\ Eligible(w.room) # {})
          => ~current(w.room).isBankrupt

\* a turn ends and the player next in the list is bankrupt: advanceTurn goes
\* past that player to one who can play
C6_Witness ==
    \E in \in TurnIntents :
       LET w == Answer(room, in)
           i0 == ensureCurrentIsActive(room).currentPlayerIndex
           nxt == (i0 + 1) % Len(room.players)
       IN /\ w.adv
          /\ w.room.players[nxt + 1].isBankrupt
          /\ room.players[nxt + 1].isBankrupt
          /\ w.room.currentPlayerIndex # nxt
          /\ w.room.currentPlayerIndex + 1 \in Eligible(w.room)

----------------------------------------------------------------------------
(* C7 *)

\* the first player after index i0 (0-based), in cyclic list order, who is
\* neither bankrupt nor disconnected, as a 0-based index
FirstEligibleAfter(r, i0) ==
    LET n == Len(r.players)
        d == CHOOSE d \in 1 .. n :
                /\ ((i0 + d) % n) + 1 \in Eligible(r)
                /\ \A e \in 1 .. (d - 1) : ((i0 + e) % n) + 1 \notin Eligible(r)
    IN (i0 + d) % n

\* C7: when an accepted intent makes the current player (index i0) bankrupt
\* and the game goes on, the turn has ended and the new current player is the
\* first one after i0 who is neither bankrupt nor disconnected.
C7_BankruptcyPassesTurnToNextEligible ==
    \A in \in GameplayIntents :
       LET w == Answer(room, in)
           r1 == ensureCurrentIsActive(room)
           i0 == r1.currentPlayerIndex
       IN (w.ok /\ ~r1.players[i0 + 1].isBankrupt /\ w.room.players[i0 + 1].isBankrupt
             /\ ~w.room.gameOver /\ Eligible(w.room) # {})
          => /\ w.room.phase = "awaiting_roll"
             /\ w.room.pending = NoPending
             /\ w.room.currentPlayerIndex = FirstEligibleAfter(w.room, i0)

----------------------------------------------------------------------------
(* C8 *)

\* C8: an accepted jailChoice with pay = true debits the fine of
\* 50 (the payer may go bankrupt over it), clears inJail, sets jailTurnsLeft
\* to 0, and ends the turn: the next active player is current.
C8_PayEndsTurn ==
    \A c \in conns :
       LET w == handleJailChoice(room, c, TRUE)
           r1 == ensureCurrentIsActive(room)
           i0 == r1.currentPlayerIndex
           before == r1.players[i0 + 1]
           after == w.room.players[i0 + 1]
       IN w.ok =>
            /\ after.balance = before.balance - JAIL_FINE \/ after.isBankrupt
            /\ ~after.inJail
            /\ after.jailTurnsLeft = 0
            /\ w.room.phase = "awaiting_roll"
            /\ (Eligible(w.room) \ {i0 + 1} # {}) =>
                  w.room.currentPlayerIndex = FirstEligibleAfter(w.room, i0)

----------------------------------------------------------------------------
(* C9 *)

\* C9: every gameState snapshot a handler broadcasts is the room as the
\* handler leaves it.
C9_NoPartialSnapshot ==
    [][emitted' # emitted =>
          \A k \in 1 .. Len(emitted') : emitted'[k] = gameState(room')]_vars

----------------------------------------------------------------------------
(* C10 *)

\* C10: no broadcast snapshot shows a player with a negative balance who is
\* not bankrupt, and when an intent makes a player bankrupt the first
\* snapshot after it shows that player bankrupt with balance 0 and the tiles
\* the player owned as unowned.
C10_BankruptcyShownAtOnce ==
    /\ \A k \in 1 .. Len(emitted) :
          \A i \in 1 .. Len(emitted[k].players) :
             emitted[k].players[i].balance < 0 => emitted[k].players[i].isBankrupt
    /\ \A in \in GameplayIntents :
          LET w == Answer(room, in)
              r1 == ensureCurrentIsActive(room)
          IN \A i \in 1 .. Len(r1.players) :
                (~r1.players[i].isBankrupt /\ w.room.players[i].isBankrupt)
                => /\ Len(w.out) >= 1
                   /\ w.out[1].players[i].isBankrupt
                   /\ w.out[1].players[i].balance = 0
                   /\ \A t \in TileIds :
                         r1.board[t] = r1.players[i].id => w.out[1].board[t] = NoId

----------------------------------------------------------------------------
(* C11 *)

\* C11: a joinRoom handler that completes changes the binding of the player
\* it joins as and of nobody else: every other player of the room in the
\* registry keeps the connection id an earlier join bound it to, also when
\* both joins had to load the room from the store.
C11_JoinsDoNotOverwriteEachOther ==
    [][\A c \in DOMAIN loading \ DOMAIN loading' :
          room.status = "playing" =>
             /\ room'.status = "playing"
             /\ \A i \in 1 .. Len(room.players) :
                   room.players[i].nickname # loading[c].nickname
                   => room'.players[i].id = room.players[i].id]_vars

----------------------------------------------------------------------------
(* C12 *)

\* index of the player joinRoom finds by nickname, 0 when there is none
ByNick(r, nickname) ==
    LET named == {i \in 1 .. Len(r.players) : r.players[i].nickname = nickname}
    IN IF named = {} THEN 0 ELSE CHOOSE i \in named : \A j \in named : i <= j

\* what a rejoin must leave alone in a player
PlayerFrame(p) ==
    [ nickname |-> p.nickname, position |-> p.position, balance |-> p.balance,
      properties |-> p.properties, isBankrupt |-> p.isBankrupt, inJail |-> p.inJail,
      jailTurnsLeft |-> p.jailTurnsLeft ]

\* the rejoin of player i from connection c went as claim C12 says
RejoinedAsClaimed(r, r2, i, c) ==
    LET old == r.players[i].id
    IN /\ r2.players[i].id = c
       /\ ~r2.players[i].isDisconnected
       /\ Len(r2.players) = Len(r.players)
       /\ \A k \in 1 .. Len(r.players) : PlayerFrame(r2.players[k]) = PlayerFrame(r.players[k])
       /\ r2.currentPlayerIndex = r.currentPlayerIndex
       /\ r2.phase = r.phase
       /\ r2.hostId # old /\ (r.hostId = old => r2.hostId = c)
       /\ r2.winnerId # old /\ (r.winnerId = old => r2.winnerId = c)
       /\ old \notin DOMAIN r2.readyById
       /\ old \in DOMAIN r.readyById => c \in DOMAIN r2.readyById
       /\ \A t \in TileIds : r2.board[t] # old /\ (r.board[t] = old => r2.board[t] = c)
       /\ r2.pending.type = r.pending.type
       /\ r.pending.type # "none" =>
             /\ r2.pending.playerId # old
             /\ r.pending.playerId = old => r2.pending.playerId = c

\* C12: a joinRoom on a playing room under the nickname of an existing player,
\* sent from a connection other than the one the player is bound to, is
\* accepted, rebinds the player's id and every reference to it (host, winner,
\* ready map, tile owners, pending) to the new connection id, clears the
\* player's isDisconnected flag and changes nothing else of the game.
C12_RejoinRebindsAndKeepsState ==
    \A c \in conns, nickname \in Nicks :
       LET i == ByNick(room, nickname)
           w == joinRoom(room, c, nickname)
       IN (room.status = "playing" /\ i # 0 /\ room.players[i].id # c)
          => w.ok /\ RejoinedAsClaimed(room, w.room, i, c)

----------------------------------------------------------------------------
(* C13 *)

\* the room without the turn pointer, phase, pending and disconnected flags
WithoutTurn(r) ==
    [ players |-> [k \in 1 .. Len(r.players) |->
                     [PlayerFrame(r.players[k]) EXCEPT !.nickname = <<@, r.players[k].id>>]],
      board |-> r.board, hostId |-> r.hostId, gameOver |-> r.gameOver,
      winnerId |-> r.winnerId, chancePos |-> r.chancePos, communityPos |-> r.communityPos ]

\* what both readings of C13 share: nobody is removed, no balance, position,
\* holding, jail state or tile owner changes, the leaver and nobody else is
\* flagged, and a leaver who held the turn loses it with phase and pending reset
DisconnectFrame(r, r2, i, c) ==
    /\ WithoutTurn(r2) = WithoutTurn(r)
    /\ r2.players[i].isDisconnected
    /\ \A k \in 1 .. Len(r.players) :
          k # i => r2.players[k].isDisconnected = r.players[k].isDisconnected
    /\ current(r).id = c =>
          /\ r2.phase = "awaiting_roll"
          /\ r2.pending = NoPending
          /\ Eligible(r2) # {} =>
                r2.currentPlayerIndex = FirstEligibleAfter(r2, r.currentPlayerIndex)
    /\ current(r).id # c => r2.phase = r.phase /\ r2.pending = r.pending

\* C13 as claimed: the disconnect of a connection bound to a player of a
\* playing room removes nobody and changes no balance, position, holding, jail
\* state or tile owner; it sets that player's isDisconnected flag and nothing
\* else, except that phase and pending are reset and the turn advances if the
\* player held the turn.
C13_DisconnectOnlyFlags ==
    \A c \in conns :
       LET i == getPlayerById(room, c)
           r2 == disconnect(room, c).room
       IN (room.status = "playing" /\ i # 0) =>
            /\ DisconnectFrame(room, r2, i, c)
            /\ current(room).id # c => r2.currentPlayerIndex = room.currentPlayerIndex

\* C13 as amended: as claimed, except that when the player did not hold the
\* turn the turn pointer stays only if it was on a player who is neither
\* bankrupt nor disconnected; if it rested on one who is, it moves on to a
\* player who can play, when there is one.
C13_DisconnectFlagsAndRepairsTurn ==
    \A c \in conns :
       LET i == getPlayerById(room, c)
           r2 == disconnect(room, c).room
       IN (room.status = "playing" /\ i # 0) =>
            /\ DisconnectFrame(room, r2, i, c)
            /\ (current(room).id # c /\ room.currentPlayerIndex + 1 \in Eligible(r2)) =>
                  r2.currentPlayerIndex = room.currentPlayerIndex
            /\ Eligible(r2) # {} => r2.currentPlayerIndex + 1 \in Eligible(r2)

\* the turn pointer rests on a disconnected player while somebody else can
\* play, and a player who does not hold the turn disconnects
C13_Witness ==
    /\ room.status = "playing"
    /\ \E c \in conns :
          LET i == getPlayerById(room, c)
              r2 == disconnect(room, c).room
          IN /\ i # 0
             /\ current(room).id # c
             /\ current(room).isDisconnected
             /\ r2.players[i].isDisconnected /\ ~room.players[i].isDisconnected
             /\ r2.currentPlayerIndex # room.currentPlayerIndex
             /\ r2.currentPlayerIndex + 1 \in Eligible(r2)

----------------------------------------------------------------------------
(* C14 *)

CardTiles == {t \in TileIds : Tile(t).type \in {"random", "chest"}}

\* C14: handling a cardAck draws no card: neither deck cursor moves, whatever
\* the acknowledged card does, and an accepted cardAck leaves no card pending;
\* the landing that a card move runs draws no card on any chance or community
\* tile; a rollDice draws one card at most.
C14_CardAckDrawsNoCard ==
    /\ \A c \in conns :
          LET w == handleCardAck(room, c)
          IN /\ w.room.chancePos = room.chancePos
             /\ w.room.communityPos = room.communityPos
             /\ (room.status = "playing" /\ w.ok) =>
                   /\ w.room.phase # "awaiting_card_ack"
                   /\ w.room.pending.type # "card"
    /\ \A t \in CardTiles :
          LET i == room.currentPlayerIndex + 1
              w == resolveLanding(Begin([room EXCEPT !.players[i].position = t,
                                                     !.pending = NoPending]), i, 7, TRUE)
          IN (room.status = "playing" /\ room.phase = "awaiting_card_ack") =>
                /\ w.room.chancePos = room.chancePos
                /\ w.room.communityPos = room.communityPos
                /\ w.room.phase # "awaiting_card_ack"
    /\ \A in \in GameplayIntents :
          LET w == Answer(room, in)
          IN (in.kind = "rollDice" /\ room.status = "playing") =>
                \/ w.room.chancePos = room.chancePos
                \/ w.room.communityPos = room.communityPos

\* a card that moves the player is pending and its acknowledgment is accepted
C14_Witness ==
    /\ room.status = "playing"
    /\ room.phase = "awaiting_card_ack"
    /\ room.pending.card.type \in {"moveSteps", "moveTo"}
    /\ \E c \in conns :
          LET w == handleCardAck(room, c)
              i == room.currentPlayerIndex + 1
          IN w.ok /\ w.room.players[i].position # room.players[i].position

-----------------------------------------------------------------------------
(* C15 *)

\* C15: when a connection sends again, immediately, the rollDice, buyTile,
\* skipBuy, jailChoice or cardAck intent that has just been accepted, the
\* duplicate is rejected and leaves the room as the first one left it.
C15_DuplicateIsRejected ==
    \A in \in GameplayIntents :
       LET w1 == Answer(room, in)
           w2 == Answer(w1.room, in)
       IN (room.status = "playing" /\ w1.ok) => ~w2.ok /\ w2.room = w1.room

\* C15 as amended: the duplicate is rejected and leaves the room as the first
\* intent left it, except a rollDice after which the room awaits a roll of a
\* current player bound to the sending connection again.
C15_DuplicateIsRejectedUnlessSameTurn ==
    \A in \in GameplayIntents :
       LET w1 == Answer(room, in)
           w2 == Answer(w1.room, in)
           again == /\ in.kind = "rollDice"
                    /\ ~w1.room.gameOver
                    /\ w1.room.phase = "awaiting_roll"
                    /\ current(w1.room).id = in.sock
       IN (room.status = "playing" /\ w1.ok /\ ~again) => ~w2.ok /\ w2.room = w1.room

\* a roll has moved the turn to another player, and the same roll sent again
\* is rejected
C15_Witness ==
    /\ room.status = "playing"
    /\ \E in \in GameplayIntents :
          LET w1 == Answer(room, in)
              w2 == Answer(w1.room, in)
          IN /\ in.kind = "rollDice" /\ Rolled(w1)
             /\ w1.room.currentPlayerIndex # room.currentPlayerIndex
             /\ ~w2.ok /\ w2.room = w1.room

-----------------------------------------------------------------------------
(* C16 *)

GameOverFreezes ==
    (room.status = "playing" /\ room.gameOver) =>
       /\ room.phase = "awaiting_roll"
       /\ room.pending = NoPending
       /\ \A in \in GameplayIntents :
             LET w == Answer(room, in) IN ~w.ok /\ w.room = room

GameOverEndsByRestart ==
    (room.status = "playing" /\ room.gameOver /\ ~(room'.status = "playing" /\ room'.gameOver)) =>
       \E kc \in ShuffleDraws, kk \in ShuffleDraws :
          LET w == restartGame(room, room.hostId, kc, kk) IN w.ok /\ room' = w.room

\* C16: while room.gameOver is true, every rollDice, buyTile, skipBuy,
\* jailChoice and cardAck from any connection is rejected and leaves the room
\* as it is, the phase is awaiting_roll and nothing is pending; only an
\* accepted restartGame ends the game-over state.
C16_GameOverRejectsUntilRestart ==
    [](GameOverFreezes) /\ [][GameOverEndsByRestart]_vars

\* the game is over and the winner, still connected, holds the turn
C16_Witness ==
    /\ room.status = "playing"
    /\ room.gameOver
    /\ current(room).id \in conns
    /\ current(room).id = room.winnerId
    /\ ~current(room).isDisconnected

-----------------------------------------------------------------------------
(* C17 *)

\* connection c is the current player's, who is in jail with turns left, and
\* the room awaits a roll
JailedRoller(r, c) ==
    /\ r.status = "playing"
    /\ ~r.gameOver
    /\ r.phase = "awaiting_roll"
    /\ current(r).id = c
    /\ current(r).inJail
    /\ current(r).jailTurnsLeft > 0

\* C17: a rollDice of the current player who is in jail with jailTurnsLeft > 0,
\* in phase awaiting_roll, rolls no dice: every position and every balance is
\* unchanged, the turn pointer is unchanged, the phase becomes
\* awaiting_jail_choice and pending becomes the jail record of that player
\* with fine 50.
C17_JailedRollOnlyPrompts ==
    \A c \in conns : \A d1 \in Dice, d2 \in Dice :
       LET w == rollDice(room, c, d1, d2)
       IN JailedRoller(room, c) =>
             /\ w.ok
             /\ ~Rolled(w)
             /\ w = rollDice(room, c, 1, 1)
             /\ \A i \in 1 .. Len(room.players) :
                   /\ w.room.players[i].position = room.players[i].position
                   /\ w.room.players[i].balance = room.players[i].balance
             /\ w.room.currentPlayerIndex = room.currentPlayerIndex
             /\ w.room.phase = "awaiting_jail_choice"
             /\ w.room.pending = [type |-> "jail", playerId |-> c, fine |-> 50]

-----------------------------------------------------------------------------
(* C18 *)

\* the first player after index i, in turn order and wrapping around to i
\* itself, who is neither bankrupt nor disconnected (i itself is)
NextActive(r, i) ==
    LET n == Len(r.players)
        at(k) == ((i - 1 + k) % n) + 1
        k == CHOOSE k \in 1 .. n : /\ at(k) \in Eligible(r)
                                   /\ \A j \in 1 .. k - 1 : at(j) \notin Eligible(r)
    IN at(k)

\* C18: an accepted jailChoice with pay = false leaves every balance and
\* position as they are, decrements the chooser's jailTurnsLeft (not below 0),
\* clears inJail exactly when the counter reaches 0, sets phase awaiting_roll
\* with nothing pending and moves the turn to the next active player; sending
\* a player to jail gives one turn to sit out, a player in jail has one turn
\* left and the chooser is out of jail afterwards, so jail costs one turn.
C18_SkipCostsExactlyOneTurn ==
    /\ room.status = "playing" =>
          \A j \in 1 .. Len(room.players) :
             /\ room.players[j].inJail => room.players[j].jailTurnsLeft = 1
             /\ sendToJail(room, j).players[j].inJail
             /\ sendToJail(room, j).players[j].jailTurnsLeft = 1
    /\ \A c \in conns :
          LET w == handleJailChoice(room, c, FALSE)
              i == ensureCurrentIsActive(room).currentPlayerIndex + 1
              old == room.players[i]
              new == w.room.players[i]
          IN (room.status = "playing" /\ w.ok) =>
                /\ \A j \in 1 .. Len(room.players) :
                      /\ w.room.players[j].balance = room.players[j].balance
                      /\ w.room.players[j].position = room.players[j].position
                /\ new.jailTurnsLeft = IF old.jailTurnsLeft > 0 THEN old.jailTurnsLeft - 1 ELSE 0
                /\ new.inJail = (old.inJail /\ new.jailTurnsLeft > 0)
                /\ w.room.phase = "awaiting_roll"
                /\ w.room.pending = NoPending
                /\ w.room.currentPlayerIndex + 1 = NextActive(room, i)
                /\ ~new.inJail
                /\ new.jailTurnsLeft = 0

\* a jailed player answers the prompt with pay = false and the turn passes to
\* another player
C18_Witness ==
    /\ room.status = "playing"
    /\ room.phase = "awaiting_jail_choice"
    /\ \E c \in conns :
          LET w == handleJailChoice(room, c, FALSE)
          IN /\ w.ok
             /\ current(room).inJail
             /\ w.room.currentPlayerIndex # room.currentPlayerIndex

-----------------------------------------------------------------------------
(* C19 *)

Offered(r, t) == isBuyable(Tile(t)) /\ r.board[t] = NoId /\ Tile(t).price > 0

\* the roll or the acknowledged card of intent in has moved the current player
\* of room r, and w is the handler's result
Moved(r, in, w) ==
    LET i == ensureCurrentIsActive(r).currentPlayerIndex + 1
    IN /\ in.kind \in {"rollDice", "cardAck"}
       /\ w.ok
       /\ in.kind = "rollDice" => Rolled(w)
       /\ in.kind = "cardAck" => w.room.players[i].position # r.players[i].position

\* C19: a roll or a card move that lands the current player on an unowned
\* buyable tile with a price opens the buy offer (phase awaiting_buy, pending
\* naming the lander and the tile) and leaves the turn pointer alone; an
\* accepted buyTile makes the buyer the owner of the offered tile, takes
\* exactly the price from the buyer's balance, appends the tile to the buyer's
\* holdings, changes no other balance and no other owner, and ends the turn.
C19_OfferThenPurchase ==
    room.status = "playing" =>
       LET i == ensureCurrentIsActive(room).currentPlayerIndex + 1
       IN /\ \A in \in GameplayIntents :
                LET w == Answer(room, in)
                    t == w.room.players[i].position
                IN (Moved(room, in, w) /\ Offered(room, t)) =>
                      /\ in.kind = "rollDice" =>
                            t = (room.players[i].position + in.dice1 + in.dice2) % BOARD_LEN
                      /\ w.room.phase = "awaiting_buy"
                      /\ w.room.pending.type = "buy"
                      /\ w.room.pending.playerId = room.players[i].id
                      /\ w.room.pending.tileId = t
                      /\ w.room.currentPlayerIndex = i - 1
          /\ \A c \in conns :
                LET w == buyTile(room, c)
                    t == room.pending.tileId
                IN w.ok =>
                      /\ room.board[t] = NoId
                      /\ w.room.board[t] = c
                      /\ room.players[i].id = c
                      /\ w.room.players[i].balance = room.players[i].balance - Tile(t).price
                      /\ w.room.players[i].properties = Append(room.players[i].properties, t)
                      /\ \A j \in 1 .. Len(room.players) :
                            j # i => w.room.players[j].balance = room.players[j].balance
                      /\ \A u \in TileIds : u # t => w.room.board[u] = room.board[u]
                      /\ w.room.phase = "awaiting_roll"
                      /\ w.room.pending = NoPending
                      /\ w.room.currentPlayerIndex + 1 = NextActive(room, i)

\* the lander has been offered the tile, can afford it and buys it
C19_Witness ==
    /\ room.status = "playing"
    /\ room.phase = "awaiting_buy"
    /\ room.pending.type = "buy"
    /\ room.pending.tileId = current(room).position
    /\ \E c \in conns : buyTile(room, c).ok

-----------------------------------------------------------------------------
(* C20 *)

\* connection c is the current player's, whom the buy offer names and who
\* cannot afford the tile
CannotAfford(r, c) ==
    /\ r.status = "playing"
    /\ ~r.gameOver
    /\ r.phase = "awaiting_buy"
    /\ r.pending.type = "buy"
    /\ r.pending.playerId = c
    /\ current(r).id = c
    /\ current(r).balance < Tile(r.pending.tileId).price

\* C20: a buyTile of the pending player whose balance is below the price of
\* the offered tile is rejected for lack of money and changes no owner, no
\* balance, neither phase nor pending nor the turn pointer; the skipBuy that
\* player sends next is accepted and ends the turn without changing any owner.
C20_UnaffordableBuyRejectedThenSkip ==
    \A c \in conns :
       LET w == buyTile(room, c)
           w2 == skipBuy(w.room, c)
       IN CannotAfford(room, c) =>
             /\ ~w.ok
             /\ w.err = "NO_MONEY"
             /\ w.room.board = room.board
             /\ \A j \in 1 .. Len(room.players) :
                   w.room.players[j].balance = room.players[j].balance
             /\ w.room.phase = room.phase
             /\ w.room.pending = room.pending
             /\ w.room.currentPlayerIndex = room.currentPlayerIndex
             /\ w2.ok
             /\ w2.room.board = room.board
             /\ w2.room.phase = "awaiting_roll"
             /\ w2.room.pending = NoPending
             /\ w2.room.currentPlayerIndex + 1 = NextActive(room, room.currentPlayerIndex + 1)

\* the current player has been offered a tile that costs more than they have
C20_Witness ==
    \E c \in conns :
       /\ CannotAfford(room, c)
       /\ ~buyTile(room, c).ok
       /\ skipBuy(room, c).ok

-----------------------------------------------------------------------------
(* C21 *)

\* what passing START may have added to the mover's balance before the landing
BonusOf(r, in, i) ==
    IF in.kind = "rollDice"
    THEN {IF r.players[i].position + in.dice1 + in.dice2 >= BOARD_LEN THEN START_BONUS ELSE 0}
    ELSE {0, START_BONUS}

DiceSumOf(r, in) == IF in.kind = "rollDice" THEN in.dice1 + in.dice2 ELSE r.pending.diceSum

\* C21: on every landing, by dice or by card move, on a buyable tile owned by
\* a player other than the lander, the lander is debited the computed rent
\* and the owner credited the same amount before bankruptcy is evaluated, and
\* a lander who stays solvent passes the turn to the next active player; on
\* an unowned or self-owned buyable tile no balance changes because of rent;
\* the rent is never negative.
C21_RentMovesFromLanderToOwner ==
    room.status = "playing" =>
       /\ \A t \in TileIds : \A s \in 2 .. 12 : computeRent(room, t, s) >= 0
       /\ \A in \in GameplayIntents :
             LET w == Answer(room, in)
                 i == ensureCurrentIsActive(room).currentPlayerIndex + 1
                 t == w.room.players[i].position
                 rent == computeRent(room, t, DiceSumOf(room, in))
                 o == getPlayerById(room, room.board[t])
                 lander == room.players[i]
             IN (Moved(room, in, w) /\ isBuyable(Tile(t))) =>
                   IF room.board[t] # NoId /\ room.board[t] # lander.id
                   THEN /\ o # 0
                        /\ o # i
                        /\ w.room.players[o].balance = room.players[o].balance + rent
                        /\ \E b \in BonusOf(room, in, i) :
                              IF lander.balance + b - rent < 0
                              THEN \/ w.room.players[i].isBankrupt
                                   \/ w.room.players[i].balance = lander.balance + b - rent
                              ELSE /\ ~w.room.players[i].isBankrupt
                                   /\ w.room.players[i].balance = lander.balance + b - rent
                                   /\ w.room.phase = "awaiting_roll"
                                   /\ w.room.pending = NoPending
                                   /\ w.room.currentPlayerIndex + 1 = NextActive(room, i)
                   ELSE /\ \A j \in 1 .. Len(room.players) :
                              j # i => w.room.players[j].balance = room.players[j].balance
                        /\ \E b \in BonusOf(room, in, i) :
                              w.room.players[i].balance = lander.balance + b

\* a roll lands the current player on a tile of another player, the rent is
\* paid and the lander stays solvent
C21_Witness ==
    /\ room.status = "playing"
    /\ \E in \in GameplayIntents :
          LET w == Answer(room, in)
              i == ensureCurrentIsActive(room).currentPlayerIndex + 1
              t == w.room.players[i].position
          IN /\ Moved(room, in, w)
             /\ isBuyable(Tile(t))
             /\ room.board[t] \notin {NoId, room.players[i].id}
             /\ computeRent(room, t, DiceSumOf(room, in)) > 0
             /\ ~w.room.players[i].isBankrupt

-----------------------------------------------------------------------------
(* C22 *)

Stations == {t \in TileIds : Tile(t).type = "station"}
Utilities == {t \in TileIds : Tile(t).type = "utility"}
GroupOf(t) == {u \in TileIds : Tile(u).type = "property" /\ Tile(u).group = Tile(t).group}
HeldBy(r, id, S) == Cardinality({u \in S : r.board[u] = id})

\* the reference rule
RefRent(r, t, diceSum) ==
    LET id == r.board[t]
    IN IF id = NoId THEN 0
       ELSE CASE Tile(t).type = "property" ->
                   LET k == HeldBy(r, id, GroupOf(t))
                       len == Len(Tile(t).rentLevels)
                   IN Tile(t).rentLevels[IF k < 1 THEN 1 ELSE IF k > len THEN len ELSE k]
              [] Tile(t).type = "station" -> <<25, 50, 100, 200>>[HeldBy(r, id, Stations)]
              [] Tile(t).type = "utility" ->
                   IF HeldBy(r, id, Utilities) = 2 THEN diceSum * 10 ELSE diceSum * 4
              [] OTHER -> 0

\* C22: for every ownership of the board and every dice sum in 2..12,
\* computeRent equals the reference rule: the rent level of the number of
\* tiles of the group the owner holds, 25, 50, 100, 200 for 1..4 stations of
\* the owner, the dice sum times 10 with both utilities and times 4 with one,
\* and 0 for a tile without owner.
C22_ComputeRentIsReferenceRule ==
    room.status = "playing" =>
       \A t \in TileIds : \A s \in 2 .. 12 : computeRent(room, t, s) = RefRent(room, t, s)

\* A has rolled in a game where one player holds three stations and both
\* utilities
C22_Witness ==
    /\ room.status = "playing"
    /\ nRolls = 1
    /\ \E id \in {1, 2} : HeldBy(room, id, Stations) = 3 /\ HeldBy(room, id, Utilities) = 2

-----------------------------------------------------------------------------
(* C23 *)

\* player i of room r put on tile t with bonus b added to the balance
Placed(r, i, t, b) ==
    [r EXCEPT !.players[i].position = t, !.players[i].balance = @ + b]

\* the cards the deck of the pending draw holds
DeckCards(r) ==
    LET deck == IF r.pending.deckType = "chance" THEN CHANCE_CARDS ELSE COMMUNITY_CARDS
    IN {deck[k] : k \in 1 .. Len(deck)}

\* C23: a dice move from p with sum s adds the START bonus of 200 once when
\* p + s >= 40 and nothing otherwise; a move-to card from p to t adds 200
\* when t < p and nothing otherwise; a card of relative steps and being sent
\* to jail add nothing.  The landing is then resolved on the tile reached.
C23_StartBonus ==
    room.status = "playing" =>
       LET r1 == ensureCurrentIsActive(room)
           i == r1.currentPlayerIndex + 1
           p == room.players[i].position
       IN /\ \A in \in GameplayIntents :
                LET w == Answer(room, in)
                    s == in.dice1 + in.dice2
                    b == IF p + s >= 40 THEN 200 ELSE 0
                IN (in.kind = "rollDice" /\ Rolled(w)) =>
                      w.room = resolveLanding(Begin(Placed(r1, i, (p + s) % 40, b)),
                                              i, s, FALSE).room
          /\ \A j \in 1 .. Len(room.players) :
                sendToJail(room, j).players[j].balance = room.players[j].balance
          /\ (room.phase = "awaiting_card_ack" /\ room.pending.type = "card") =>
                \A c \in conns : \A card \in DeckCards(room) :
                   LET w == handleCardAck([room EXCEPT !.pending.card = card], c)
                       base == [r1 EXCEPT !.pending = NoPending]
                       ds == room.pending.diceSum
                   IN w.ok =>
                         CASE card.type = "moveTo" ->
                                 w.room = resolveLanding(
                                             Begin(Placed(base, i, card.tileId,
                                                          IF card.tileId < p THEN 200 ELSE 0)),
                                             i, ds, TRUE).room
                           [] card.type = "moveSteps" ->
                                 w.room = resolveLanding(
                                             Begin(Placed(base, i, (p + card.steps + 40) % 40, 0)),
                                             i, ds, TRUE).room
                           [] card.type = "goToJail" ->
                                 /\ w.room.players[i].balance = room.players[i].balance
                                 /\ w.room.players[i].position = JAIL_TILE_ID
                           [] OTHER -> TRUE

\* A has rolled from tile 29 onto START and holds the bonus
C23_Witness ==
    /\ room.status = "playing"
    /\ nRolls = 1
    /\ room.players[1].position = 0
    /\ room.players[1].balance = MidGame.players[1].balance + START_BONUS

-----------------------------------------------------------------------------
(* C24 *)

\* the room after n draws from one deck
RECURSIVE DrawN(_, _, _)
DrawN(r, deckType, n) ==
    IF n = 0 THEN r ELSE DrawN(drawCardRoom(r, deckType), deckType, n - 1)

DeckOf(r, deckType) == IF deckType = "chance" THEN r.chanceDeck ELSE r.communityDeck
CursorOf(r, deckType) == IF deckType = "chance" THEN r.chancePos ELSE r.communityPos

\* C24: the decks start with both cursors at 0, and from a cursor at c the
\* n-th next draw (n = 0, 1, 2, ...) of a deck of length L returns the card
\* at index (c + n) mod L of its order, so the n-th draw after the start
\* returns the card at n mod L and the cards repeat in the same order after
\* the wrap; drawing changes neither deck's order nor the other cursor.
C24_DrawsFollowShuffledOrder ==
    /\ \A kc \in ShuffleDraws, kk \in ShuffleDraws :
          LET r == initDecks(room, kc, kk) IN r.chancePos = 0 /\ r.communityPos = 0
    /\ \A deckType \in DeckTypes : \A n \in 0 .. MaxDraws :
          LET rn == DrawN(room, deckType, n)
              deck == DeckOf(room, deckType)
              other == CHOOSE d \in DeckTypes : d # deckType
          IN /\ drawCard(rn, deckType)
                   = deck[((CursorOf(room, deckType) + n) % Len(deck)) + 1]
             /\ rn.chanceDeck = room.chanceDeck
             /\ rn.communityDeck = room.communityDeck
             /\ CursorOf(rn, other) = CursorOf(room, other)

\* both decks have been drawn through and a cursor stands at the end of its deck
C24_Witness ==
    /\ room.chancePos = Len(room.chanceDeck)
    /\ room.communityPos \in 1 .. Len(room.communityDeck) - 1
    /\ room.chanceDeck # CHANCE_CARDS

-----------------------------------------------------------------------------
(* C25 *)

\* the joinRoom intents the open connections can send to the waiting room
GuestJoins == UNION {{<<c, n>> : n \in {GuestNicks[c], GuestNicks[1]}} : c \in conns}

\* C25: whenever a joinRoom appends a new player to a waiting room, the color
\* the new player gets differs from the color of every player already there.
C25_NewPlayerGetsFreshColor ==
    \A j \in GuestJoins :
       LET w == joinRoom(room, j[1], j[2])
           n == Len(room.players)
       IN (room.status = "waiting" /\ w.ok /\ Len(w.room.players) = n + 1) =>
             \A i \in 1 .. n : room.players[i].colorKey # w.room.players[n + 1].colorKey

-----------------------------------------------------------------------------
(* C26 *)

NickTaken(r, nickname) == \E i \in 1 .. Len(r.players) : r.players[i].nickname = nickname

\* the handler has appended a player for socket c under that nickname, not ready
Appended(r, w, c, nickname) ==
    LET n == Len(r.players)
    IN /\ w.ok
       /\ Len(w.room.players) = n + 1
       /\ \A i \in 1 .. n : w.room.players[i] = r.players[i]
       /\ w.room.players[n + 1].id = c
       /\ w.room.players[n + 1].nickname = nickname
       /\ w.room.readyById[c] = FALSE

Refused(r, w, e) == ~w.ok /\ w.err = e /\ w.room = r

AtMostSixDistinctNicks ==
    room # NoRoom =>
       /\ Len(room.players) <= 6
       /\ \A i, k \in 1 .. Len(room.players) :
             i # k => room.players[i].nickname # room.players[k].nickname

\* C26: in a waiting room a joinRoom is refused with ROOM_FULL when the room
\* has 6 players and with NICKNAME_TAKEN when a player of the room has that
\* nickname, the room unchanged in both cases; otherwise a new player is
\* appended, not ready.  A room never has more than 6 players and its
\* players' nicknames are pairwise distinct.
C26_WaitingJoinRules ==
    /\ AtMostSixDistinctNicks
    /\ \A j \in GuestJoins :
          LET w == joinRoom(room, j[1], j[2])
          IN room.status = "waiting" =>
                IF Len(room.players) >= 6 THEN Refused(room, w, "ROOM_FULL")
                ELSE IF NickTaken(room, j[2]) THEN Refused(room, w, "NICKNAME_TAKEN")
                ELSE Appended(room, w, j[1], j[2])

\* C26 as amended: as above, except that below the cap a joinRoom of a
\* connection that is a player of the room already is accepted, whatever the
\* nickname, and changes nothing.
C26_WaitingJoinRulesForNewcomers ==
    /\ AtMostSixDistinctNicks
    /\ \A j \in GuestJoins :
          LET w == joinRoom(room, j[1], j[2])
          IN room.status = "waiting" =>
                IF Len(room.players) >= 6 THEN Refused(room, w, "ROOM_FULL")
                ELSE IF getPlayerById(room, j[1]) # 0 THEN w.ok /\ w.room = room
                ELSE IF NickTaken(room, j[2]) THEN Refused(room, w, "NICKNAME_TAKEN")
                ELSE Appended(room, w, j[1], j[2])

\* the room is full and a seventh connection is open
C26_Witness ==
    /\ room.status = "waiting"
    /\ Len(room.players) = 6
    /\ \E c \in conns : getPlayerById(room, c) = 0 /\ ~joinRoom(room, c, GuestNicks[c]).ok

-----------------------------------------------------------------------------
(* C27 *)

NickSeq(r) == [i \in 1 .. Len(r.players) |-> r.players[i].nickname]

LateJoinRefused ==
    \A j \in GuestJoins :
       (room.status = "playing" /\ ~NickTaken(room, j[2])) =>
          Refused(room, joinRoom(room, j[1], j[2]), "GAME_ALREADY_STARTED")

PlayerListFixed ==
    room.status = "playing" => room' # NoRoom /\ NickSeq(room') = NickSeq(room)

\* C27: in a playing room a joinRoom whose nickname no player has is refused
\* with GAME_ALREADY_STARTED and changes nothing, and no join, rejoin or
\* disconnect changes the length or the order of the player list.
C27_PlayingRoomKeepsItsPlayers ==
    [](LateJoinRefused) /\ [][PlayerListFixed]_vars

\* the game runs, a player has disconnected, and an open connection that is
\* no player asks to join under a nickname of its own
C27_Witness ==
    /\ room.status = "playing"
    /\ \E i \in 1 .. Len(room.players) : room.players[i].isDisconnected
    /\ \E c \in conns :
          /\ getPlayerById(room, c) = 0
          /\ ~NickTaken(room, GuestNicks[c])
          /\ ~joinRoom(room, c, GuestNicks[c]).ok

-----------------------------------------------------------------------------
(* C28 *)

\* at least two players, and the ready map holds true for each of them
MayStart(r) ==
    /\ Len(r.players) >= 2
    /\ \A i \in 1 .. Len(r.players) :
          LET id == r.players[i].id IN id \in DOMAIN r.readyById /\ r.readyById[id] = TRUE

StartRules ==
    /\ room.status = "waiting" =>
          \A c \in conns :
             LET w == startGame(room, c, 0, 0)
             IN IF c = room.hostId /\ MayStart(room)
                THEN w.ok /\ w.room.status = "playing"
                ELSE ~w.ok /\ w.room = room
    /\ room.status = "playing" =>
          /\ \A in \in TurnIntents : Answer(room, in).room.status = "playing"
          /\ \A c \in conns :
                /\ restartGame(room, c, 0, 0).room.status = "playing"
                /\ \A ready \in BOOLEAN : setReady(room, c, ready).room = room

StatusSteps ==
    /\ (room.status = "waiting" /\ room'.status = "playing") =>
          /\ room.hostId \in conns
          /\ MayStart(room)
          /\ \E kc \in ShuffleDraws, kk \in ShuffleDraws :
                room' = startGame(room, room.hostId, kc, kk).room
    /\ room.status = "playing" => room'.status = "playing"

\* C28: a waiting room becomes playing only by a startGame of the connection
\* that is hostId, with at least 2 players and every player's ready entry
\* true; a startGame that fails one of these is rejected and leaves the room
\* waiting; a playing room never becomes waiting again.
C28_OnlyHostStartsReadyRoom ==
    [](StartRules) /\ [][StatusSteps]_vars

\* the host has started a game of three and one player has left it since
C28_Witness ==
    /\ room.status = "playing"
    /\ Len(room.players) = 3
    /\ room.hostId \in conns
    /\ \E i \in 1 .. 3 : room.players[i].isDisconnected

-----------------------------------------------------------------------------
(* C29 *)

HostIsAPlayer(r) ==
    r # NoRoom => \E i \in 1 .. Len(r.players) : r.players[i].id = r.hostId

\* C29: in every reachable state the hostId of an existing room is the id of
\* a player of its list: after the host left a waiting room (the first
\* remaining player is the host) and after the host came back to a playing
\* room on another connection; the persisted form of the room keeps it.
C29_HostIsAPlayer ==
    /\ HostIsAPlayer(room)
    /\ room # NoRoom => HostIsAPlayer(persistedToRoom(roomToPersisted(room)))

\* the first host left the waiting room, the host after them started the game,
\* lost the connection and is back on a later one
C29_Witness ==
    /\ room.status = "playing"
    /\ room.players[1].nickname = GuestNicks[2]
    /\ room.hostId = room.players[1].id
    /\ room.hostId > 2
    /\ ~room.players[1].isDisconnected

-----------------------------------------------------------------------------
(* C30 *)

\* no timer is armed, no call is on its way to MongoDB, no load is suspended
StoreQuiet == saveTimers = {} /\ dbOps = {} /\ loading = NoLoads

\* what a joinRoom sent now answers once its load has returned
JoinAnswer(c, nickname) ==
    joinRoom(IF room = NoRoom /\ isMongoReady /\ db # NoRoom THEN persistedToRoom(db) ELSE room,
             c, nickname)

\* C30: when the last player of a waiting room has disconnected, the room is
\* gone from the registry and, once the save timers, the saves and the delete
\* on their way have all completed (in any order), the store holds no snapshot
\* of the room, and a joinRoom for its code answers ROOM_NOT_FOUND.
C30_EmptiedRoomLeavesNoSnapshot ==
    (room = NoRoom /\ StoreQuiet) =>
        /\ db = NoRoom
        /\ \A c \in conns, nickname \in Nicks :
              LET w == JoinAnswer(c, nickname) IN ~w.ok /\ w.err = "ROOM_NOT_FOUND"

-----------------------------------------------------------------------------
(* C31 *)

\* C31: a failure of the store is never surfaced to a player: a joinRoom
\* whose load failed answers what it answers when the store is unavailable
\* (ROOM_NOT_FOUND, or a normal join of the room in memory) and leaves the
\* registry as that join leaves it.
C31_StoreFailureIsNotSurfaced ==
    \A c \in DOMAIN loading :
       (loading[c].read /\ loading[c].failed) =>
          LET w == joinRoomResumed(room, c, loading[c])
              unavailable == joinRoom(room, c, loading[c].nickname)
          IN w.ok = unavailable.ok /\ w.err = unavailable.err /\ w.room = unavailable.room

-----------------------------------------------------------------------------
(* C32 *)

\* a game at its start: every player on start with the starting balance and
\* nothing held, free and unjailed, the board unowned, the first player to roll
FreshGame(r) ==
    /\ \A i \in 1 .. Len(r.players) :
          /\ r.players[i].position = 0
          /\ r.players[i].balance = 1500
          /\ r.players[i].properties = <<>>
          /\ ~r.players[i].isBankrupt
          /\ ~r.players[i].inJail
    /\ \A t \in TileIds : r.board[t] = NoId
    /\ ~r.gameOver
    /\ r.winnerId = NoId
    /\ r.currentPlayerIndex = 0
    /\ r.phase = "awaiting_roll"
    /\ r.pending = NoPending
    /\ r.chancePos = 0
    /\ r.communityPos = 0

SamePlayerList(r1, r2) ==
    /\ Len(r1.players) = Len(r2.players)
    /\ \A i \in 1 .. Len(r1.players) :
          /\ r1.players[i].id = r2.players[i].id
          /\ r1.players[i].nickname = r2.players[i].nickname

\* C32: restartGame is accepted only from the host's connection on a playing
\* room and is otherwise rejected without a change; after an accepted one the
\* game is at its start (positions 0, balances 1500, nothing held, nobody
\* bankrupt or jailed, board unowned, no winner, turn index 0, awaiting_roll,
\* no pending, both cursors 0) with the same players in the same order.
C32_RestartResetsTheGame ==
    /\ room # NoRoom =>
          \A c \in conns, kc \in ShuffleDraws, kk \in ShuffleDraws :
             LET w == restartGame(room, c, kc, kk)
             IN IF room.status = "playing" /\ c = room.hostId
                THEN w.ok /\ FreshGame(w.room) /\ SamePlayerList(w.room, room)
                          /\ w.room.status = "playing"
                ELSE ~w.ok /\ w.room = room
    /\ \A c \in conns :
          LET lobby == createRoom(c, "A", 0, 0).room
              w == restartGame(lobby, c, 0, 0)
          IN ~w.ok /\ w.room = lobby

\* the host has restarted a game in which tiles had been bought
C32_Witness ==
    /\ room # NoRoom
    /\ FreshGame(room)
    /\ nRolls = MaxRolls
    /\ room.hostId \in conns

-----------------------------------------------------------------------------
(* C33 *)

\* the first player after list place i, in cyclic order, who is neither
\* bankrupt nor flagged disconnected; place i when there is no other
NextInTurn(r, i) ==
    LET n == Len(r.players)
        at(k) == ((i - 1 + k) % n) + 1
        others == {k \in 1 .. n - 1 : at(k) \in Eligible(r)}
    IN IF others = {} THEN i
       ELSE at(CHOOSE k \in others : \A j \in others : k <= j)

\* C33: after an accepted intent that ends the turn (buyTile, skipBuy, a jail
\* skip, a card acknowledgment or a landing that ends it) without making a
\* player bankrupt, the current player is the first after the acting player's
\* place who is neither bankrupt nor flagged disconnected, in cyclic order,
\* or the acting player again when there is no other.
C33_TurnPassesToNextActive ==
    room.status = "playing" =>
       \A in \in GameplayIntents :
          LET w == Answer(room, in)
              i == ensureCurrentIsActive(room).currentPlayerIndex + 1
          IN (w.ok /\ w.adv /\ Bankrupts(w.room) = Bankrupts(room))
                => w.room.currentPlayerIndex + 1 = NextInTurn(w.room, i)

\* the player after the current one is flagged disconnected and an intent of
\* the current player ends the turn: the turn passes over the absent player
C33_Witness ==
    /\ room.status = "playing"
    /\ Len(room.players) = 3
    /\ \E in \in GameplayIntents :
          LET w == Answer(room, in)
              i == ensureCurrentIsActive(room).currentPlayerIndex + 1
          IN /\ w.ok /\ w.adv /\ Bankrupts(w.room) = Bankrupts(room)
             /\ room.players[(i % 3) + 1].isDisconnected
             /\ w.room.currentPlayerIndex + 1 = ((i + 1) % 3) + 1

-----------------------------------------------------------------------------
(* C34 *)

\* C34: in every reachable state the ids of the players of the room are
\* pairwise distinct, whatever joins, rejoins by nickname (also from a
\* connection already bound to another player of the room) and disconnects
\* have been handled.
C34_PlayerIdsAreDistinct ==
    room # NoRoom =>
       \A i \in 1 .. Len(room.players), j \in 1 .. Len(room.players) :
          room.players[i].id = room.players[j].id => i = j

-----------------------------------------------------------------------------
(* C35 *)

Holds(p, t) == \E k \in 1 .. Len(p.properties) : p.properties[k] = t

\* C35: after every handled intent in a playing room, a tile is in a player's
\* owned-tile list exactly when the board has that player's id as the tile's
\* owner, and every owner on the board is the id of a player of the room who
\* is not bankrupt.
C35_HoldingsMatchBoard ==
    room.status = "playing" =>
       /\ \A i \in 1 .. Len(room.players), t \in TileIds :
             Holds(room.players[i], t) <=> room.board[t] = room.players[i].id
       /\ \A t \in TileIds :
             room.board[t] # NoId =>
                \E i \in 1 .. Len(room.players) :
                   room.players[i].id = room.board[t] /\ ~room.players[i].isBankrupt

-----------------------------------------------------------------------------
(* C36 *)

JailConsistent(p) ==
    /\ p.inJail <=> p.jailTurnsLeft = 1
    /\ p.jailTurnsLeft \in {0, 1}
    /\ p.inJail => p.position = JAIL_TILE_ID
    /\ p.isBankrupt => ~p.inJail

\* C36: after every handled intent, for every player, inJail is true exactly
\* when jailTurnsLeft is 1, jailTurnsLeft is 0 or 1, a player in jail stands
\* on the jail tile, and a bankrupt player is not in jail; sending a player
\* who can play to jail keeps all of this.
C36_JailFieldsAgree ==
    room # NoRoom =>
       /\ \A i \in 1 .. Len(room.players) : JailConsistent(room.players[i])
       /\ room.status = "playing" =>
             \A i \in 1 .. Len(room.players) :
                ~room.players[i].isBankrupt =>
                   \A k \in 1 .. Len(room.players) :
                      JailConsistent(sendToJail(room, i).players[k])

\* a jailed player has paid a fine the balance did not cover and is bankrupt
\* and out of jail, while another player still sits in jail
C36_Witness ==
    /\ room.status = "playing"
    /\ room.players[2].isBankrupt
    /\ ~room.players[2].inJail
    /\ room.players[3].inJail
    /\ room.players[3].position = JAIL_TILE_ID

-----------------------------------------------------------------------------
(* C37 *)

\* C37: after every completely handled intent in a playing room every
\* player's balance is at least 0: a balance that went negative inside the
\* handling has been turned into bankruptcy (balance 0) before it ended.
C37_BalancesNeverNegative ==
    room.status = "playing" =>
       \A i \in 1 .. Len(room.players) : room.players[i].balance >= 0

-----------------------------------------------------------------------------
(* C38 *)

PhaseKind(phase) ==
    CASE phase = "awaiting_buy" -> "buy"
      [] phase = "awaiting_card_ack" -> "card"
      [] phase = "awaiting_jail_choice" -> "jail"
      [] OTHER -> "none"

\* C38: after every completely handled intent in a playing room whose phase
\* is awaiting_buy, awaiting_card_ack or awaiting_jail_choice, pending is a
\* record of the kind of the phase naming the id of the player at
\* currentPlayerIndex, who is neither bankrupt nor flagged disconnected; in
\* awaiting_buy its tileId is that player's position, a buyable unowned tile.
C38_PromptNamesCurrentPlayer ==
    (room.status = "playing"
       /\ room.phase \in {"awaiting_buy", "awaiting_card_ack", "awaiting_jail_choice"}) =>
       /\ room.pending.type = PhaseKind(room.phase)
       /\ room.pending.playerId = current(room).id
       /\ ~current(room).isBankrupt
       /\ ~current(room).isDisconnected
       /\ room.phase = "awaiting_buy" =>
             /\ room.pending.tileId = current(room).position
             /\ isBuyable(Tile(room.pending.tileId))
             /\ room.board[room.pending.tileId] = NoId

\* a buy offer is open and the player it was made to has come back on
\* another connection since
C38_Witness ==
    /\ room.status = "playing"
    /\ room.phase = "awaiting_buy"
    /\ room.pending.playerId = current(room).id
    /\ room.pending.playerId > 3

-----------------------------------------------------------------------------
(* C39 *)

\* a player who is not bankrupt is bound to an open connection
SomeoneCanPlay(r) ==
    \E i \in 1 .. Len(r.players) : ~r.players[i].isBankrupt /\ r.players[i].id \in conns

\* C39: whenever the room is playing, the game is not over and a player who
\* is not bankrupt is bound to an open connection, some open connection has
\* a rollDice, buyTile, skipBuy, jailChoice or cardAck that is accepted: the
\* turn does not rest on a player whose connection is gone, also after a
\* restartGame sent while players are disconnected.
C39_TurnIsNeverWedged ==
    (room.status = "playing" /\ ~room.gameOver /\ SomeoneCanPlay(room)) =>
       \E in \in GameplayIntents : Answer(room, in).ok

-----------------------------------------------------------------------------
(* C40 *)

\* C40: when a connection that is a player in several rooms disconnects, the
\* disconnect is applied to every one of them: afterwards no waiting room
\* lists the connection's id as a player or as host, and in every playing
\* room the player with that id is flagged disconnected, also when one of the
\* rooms became empty and was deleted in the same disconnect.
C40_DisconnectReachesEveryRoom ==
    \A c \in conns :
       LET rs == disconnectEveryRoom(rooms, c)
       IN \A k \in 1 .. Len(rs) :
             LET r == rs[k].room
             IN /\ r.status = "waiting" =>
                      /\ r.hostId # c
                      /\ \A i \in 1 .. Len(r.players) : r.players[i].id # c
                /\ r.status = "playing" =>
                      \A i \in 1 .. Len(r.players) :
                         r.players[i].id = c => r.players[i].isDisconnected

====
